---------------------------- MODULE Spec2Model ----------------------------
(***************************************************************************)
(* Authentication and session subsystem of the Normie Nation server:       *)
(* server/auth.ts (token codec, wallet signature check, Auth Gate),        *)
(* server/authRoutes.ts (the /auth routes), server/storage.ts (the         *)
(* relational store) and requireAdmin of server/routes.ts.                 *)
(*                                                                         *)
(* Every route handler is an async function; it runs synchronously from    *)
(* one `await storage.X(...)` to the next.  A handler is therefore a       *)
(* process whose steps are "the awaited store call takes effect and the    *)
(* handler runs on to its next await (or to its response)".  As many       *)
(* handlers as Slots has members are in flight at a time.                  *)
(*                                                                         *)
(* Time is the value of Date.now() in milliseconds.                        *)
(***************************************************************************)
EXTENDS Integers, Sequences, FiniteSets, TLC

(***************************************************************************)
(* Bounds of the model.                                                    *)
(***************************************************************************)
MaxRequests == 3
MaxWalletRequests == 2
MaxTicks == 1
MaxStarts == 2
MaxIssued == 2
MaxAccountRequests == 2

(***************************************************************************)
(* Program constants.                                                      *)
(***************************************************************************)
SESSION_DURATION_DAYS == 7
CHALLENGE_EXPIRY_MINUTES == 5
PASSWORD_RESET_EXPIRY_HOURS == 1

SecondMs == 1000
SignatureLength == 43
ChallengeTtlMs == CHALLENGE_EXPIRY_MINUTES * 60 * 1000
ResetTtlMs == PASSWORD_RESET_EXPIRY_HOURS * 60 * 60 * 1000
SessionTtlMs == 7 * 24 * 60 * 60 * 1000
JwtTtlSeconds == SESSION_DURATION_DAYS * 24 * 60 * 60

\* The clock never passes MaxNow (the integers of the checker are 32 bits wide).
MaxNow == 2 * SessionTtlMs

Slots == {1, 2}

(***************************************************************************)
(* Values.  A wallet address is a string; the model keeps its first eight  *)
(* characters (what slice(0, 8) returns) and the rest apart.  null and ""  *)
(* are the empty tuple / the empty string.                                 *)
(***************************************************************************)
NoWallet == <<>>
\* The string "" as an address: nothing in its first eight characters and
\* nothing after them.
EmptyWallet == <<"", "">>
WalletA == <<"AAAAAAAA", "a">>
WalletB == <<"BBBBBBBB", "b">>
\* Another address that begins with the eight characters of WalletA.
WalletA2 == <<"AAAAAAAA", "c">>
Wallets == {WalletA, WalletB}

NoEmail == ""
EmailA == "a@x.com"
EmailB == "b@x.com"
EmailBUpper == "B@X.com"
EmailNone == "nobody@x.com"

\* Ed25519: the public key a wallet address denotes, and a key pair that
\* belongs to no wallet of the model (an outsider's).
KeyOf(w) == <<"pk", w>>
OutsiderKey == <<"pk", <<"ZZZZZZZZ", "z">>>>
NoKey == <<>>

\* A detached signature is made by the holder of one key over one message.
Sign(key, msg) == [signer |-> key, msg |-> msg]
NoSignature == [signer |-> NoKey, msg |-> [nonce |-> 0, ts |-> -1]]

\* The challenge text `...: ${random}-${timestamp}`; the random part is fresh.
ChallengeText(n, t) == [nonce |-> n, ts |-> t]
BogusChallenge == [nonce |-> 0, ts |-> 0]
NoChallenge == [nonce |-> 0, ts |-> -1]

\* A password, with what the acceptance policy looks at: its length and the
\* character classes it holds.
Password(text, len, lower, upper, digit) ==
  [text |-> text, len |-> len, lower |-> lower, upper |-> upper, digit |-> digit]
PwOld == Password("Abcdef12", 8, TRUE, TRUE, TRUE)
PwNew == Password("Newpass99", 9, TRUE, TRUE, TRUE)
PwWeak == Password("abcdefgh", 8, TRUE, FALSE, FALSE)
PwOther == Password("Other3456", 9, TRUE, TRUE, TRUE)

NoHash == [pw |-> "", salt |-> 0]

\* generatePasswordResetToken(): 32 random bytes, fresh per call.
ResetTokenText(n) == [rnd |-> n]
BogusResetToken == [rnd |-> 0]
NoResetToken == [rnd |-> -1]
NoToken == [userId |-> 0]

\* process.env.JWT_SECRET when it is set, when it is not, and the value of
\* crypto.randomBytes(32).toString("hex") drawn by the n-th process start.
ConfiguredSecret == <<"env">>
NoSecret == <<>>
RandomSecret(n) == <<"randomBytes", n>>
OutsiderSecret == <<"outsider">>
NoRow == [id |-> 0]

\* A username is a tuple of the pieces of the string; the empty tuple stands
\* for an absent one and for every string the validators refuse.
NoUsername == <<>>
\* A text column or body field: <<>> is null / undefined, <<s>> the string s.
NullText == <<>>

\* A timestamp column that is null (a Date is its milliseconds, 0 or more).
NullDate == 0 - 1
NoUser == [id |-> 0]

\* No response leaves the server in this step.
NoResponse == [kind |-> "none", pc |-> "none", status |-> 0]

VARIABLES
  now,                  \* Date.now(), ms
  ticks,                \* clock advances so far
  users,                \* table users: sequence of rows, id = position
  sessions,             \* table sessions: set of rows
  sessionSeq,           \* sessions inserted so far (the next row's id - 1)
  passwordResetTokens,  \* table password_reset_tokens: sequence of rows
  authChallenges,       \* table auth_challenges: sequence of rows
  hashCount,            \* bcrypt salts drawn so far
  inflight,             \* the handlers that are running (between two awaits)
  response,             \* the response the latest step sent, if it sent one
  started,              \* requests accepted so far
  clientTokens,         \* bearer tokens delivered to clients
  mailbox,              \* reset tokens delivered by mail
  hist,                 \* history of completed operations (for the properties)
  env,                  \* process.env.JWT_SECRET of the deployment
  adminEnv,             \* process.env.ADMIN_WALLET_ADDRESS (NoWallet: not set)
  JWT_SECRET,           \* the module constant JWT_SECRET of the running process
  boots                 \* process starts so far

vars == <<now, ticks, users, sessions, sessionSeq, passwordResetTokens,
          authChallenges, hashCount, inflight, response, started, clientTokens,
          mailbox, hist, env, adminEnv, JWT_SECRET, boots>>

procVars == <<env, adminEnv, JWT_SECRET, boots>>

dbVars == <<users, sessions, sessionSeq, passwordResetTokens, authChallenges,
            hashCount>>

HistInit == [verified |-> {}, consumed |-> {}, redeemed |-> {}, revoked |-> {},
             changed |-> {}, loggedOut |-> {}, found |-> {}, rejected |-> {}]

(***************************************************************************)
(* server/auth.ts                                                          *)
(***************************************************************************)

\* const ADMIN_WALLET_ADDRESS = process.env.ADMIN_WALLET_ADDRESS || ""
ADMIN_WALLET_ADDRESS ==
  IF adminEnv \in {NoWallet, EmptyWallet} THEN EmptyWallet ELSE adminEnv

\* const JWT_SECRET = process.env.JWT_SECRET || crypto.randomBytes(32)...
LoadSecret(e, n) == IF e # NoSecret THEN e ELSE RandomSecret(n)

\* The HMAC-SHA256 of `${encodedHeader}.${encodedPayload}` under a secret, as
\* the signature segment; `tamper` is the position of a character of the
\* segment that was replaced by another (0: none).
Hmac(secret, fullPayload) == [key |-> secret, msg |-> fullPayload, tamper |-> 0]

\* The payload segment of a token, decoded.
Claims(token) ==
  [userId |-> token.userId, walletAddress |-> token.walletAddress,
   email |-> token.email, role |-> token.role, iat |-> token.iat,
   exp |-> token.exp]

\* verifyJWT returning null.
NoClaims == [userId |-> 0]

\* createJWT: a token is its payload (the claims, iat and exp) and its
\* signature segment `sig`; the header segment is the same in every token.
createJWT(payload, t) ==
  LET fullPayload ==
        [userId |-> payload.userId, walletAddress |-> payload.walletAddress,
         email |-> payload.email, role |-> payload.role,
         iat |-> t \div SecondMs,
         exp |-> (t \div SecondMs) + JwtTtlSeconds]
  IN [userId |-> fullPayload.userId, walletAddress |-> fullPayload.walletAddress,
      email |-> fullPayload.email, role |-> fullPayload.role,
      iat |-> fullPayload.iat, exp |-> fullPayload.exp,
      sig |-> Hmac(JWT_SECRET, fullPayload)]

\* A verifier that would take the payload's word without the signature.
verifyJWTUnsigned(token, t) ==
  IF token.userId = 0 THEN NoClaims
  ELSE IF token.exp < t \div SecondMs THEN NoClaims
  ELSE Claims(token)

\* A verifier that would reject a token in the second its exp names.
verifyJWTEarly(token, t) ==
  IF token.userId = 0 THEN NoClaims
  ELSE IF token.sig # Hmac(JWT_SECRET, Claims(token)) THEN NoClaims
  ELSE IF token.exp <= t \div SecondMs THEN NoClaims
  ELSE Claims(token)

\* verifyJWT: the payload, or NoClaims for null (a string that is not three
\* segments of a token has userId 0).
verifyJWT(token, t) ==
  IF token.userId = 0 THEN NoClaims
  ELSE IF token.sig # Hmac(JWT_SECRET, Claims(token)) THEN NoClaims
  ELSE IF token.exp < t \div SecondMs THEN NoClaims
  ELSE Claims(token)

\* bcrypt.hash(password, 10) with a fresh salt; bcrypt.compare.
hashPassword(password, salt) == [pw |-> password.text, salt |-> salt]
verifyPassword(password, hash) == hash.pw = password.text

\* nacl.sign.detached.verify(message, signature, publicKey)
verifyWalletSignature(message, signature, publicKey) ==
  /\ publicKey # NoKey
  /\ signature.signer = publicKey
  /\ signature.msg = message

\* A role function that leaves out the test of the address itself.
determineRoleOfAnyString(walletAddress) ==
  IF walletAddress = ADMIN_WALLET_ADDRESS THEN "admin" ELSE "user"

\* `walletAddress && walletAddress === ADMIN_WALLET_ADDRESS`: null and "" are
\* falsy.
determineRole(walletAddress) ==
  IF /\ walletAddress \notin {NoWallet, EmptyWallet}
     /\ walletAddress = ADMIN_WALLET_ADDRESS
  THEN "admin" ELSE "user"

(***************************************************************************)
(* server/storage.ts                                                       *)
(***************************************************************************)
Rows(table) == {table[i] : i \in 1..Len(table)}

\* `const [row] = await db.select()...`: the first row, or undefined.
FirstOf(rows) == IF rows = {} THEN NoRow
                 ELSE CHOOSE r \in rows : \A q \in rows : r.id <= q.id

\* A lookup that would return a banned row as if it were not banned.
getUserUnbanned(id) ==
  LET user == FirstOf({u \in Rows(users) : u.id = id})
  IN IF user.id = 0 THEN user ELSE [user EXCEPT !.bannedAt = NullDate]

getUser(id) == FirstOf({u \in Rows(users) : u.id = id})
getUserByUsername(username) == FirstOf({u \in Rows(users) : u.username = username})
getUserByEmail(email) == FirstOf({u \in Rows(users) : u.email = email})
getUserByWallet(w) == FirstOf({u \in Rows(users) : u.walletAddress = w})

\* The unique constraints of table users; null never conflicts.
UserInsertOk(u) ==
  /\ \A o \in Rows(users) : o.username # u.username
  /\ u.walletAddress # NoWallet =>
       \A o \in Rows(users) : o.walletAddress # u.walletAddress
  /\ u.email # NoEmail => \A o \in Rows(users) : o.email # u.email

\* An insert that drops the password hash.
NewUserWithoutHash(u) ==
  [id |-> Len(users) + 1, walletAddress |-> u.walletAddress, email |-> u.email,
   passwordHash |-> NoHash, username |-> u.username, role |-> u.role,
   bio |-> NullText, bannedAt |-> NullDate]

NewUser(u) ==
  [id |-> Len(users) + 1, walletAddress |-> u.walletAddress, email |-> u.email,
   passwordHash |-> u.passwordHash, username |-> u.username, role |-> u.role,
   bio |-> NullText, bannedAt |-> NullDate]

banUser(id) ==
  [i \in 1..Len(users) |->
     IF users[i].id = id THEN [users[i] EXCEPT !.bannedAt = now] ELSE users[i]]

unbanUser(id) ==
  [i \in 1..Len(users) |->
     IF users[i].id = id THEN [users[i] EXCEPT !.bannedAt = NullDate]
     ELSE users[i]]

\* A lookup that would return a session in the millisecond it expires.
getSessionByTokenAtExpiry(token) ==
  FirstOf({s \in sessions : s.token = token /\ s.expiresAt >= now})

\* A lookup that would return a session for any token.
getSessionByAnyToken(token) ==
  FirstOf({s \in sessions : s.expiresAt > now})

getSessionByToken(token) ==
  FirstOf({s \in sessions : s.token = token /\ s.expiresAt > now})

\* The unique constraint on sessions.token.
SessionInsertOk(token) == \A s \in sessions : s.token # token

\* A session row filed under the first identity, whoever logged in.
NewSessionOfFirstUser(userId, token, expiresAt) ==
  [id |-> sessionSeq + 1, userId |-> 1, token |-> token,
   expiresAt |-> expiresAt]

NewSession(userId, token, expiresAt) ==
  [id |-> sessionSeq + 1, userId |-> userId, token |-> token,
   expiresAt |-> expiresAt]

deleteSession(id) == {s \in sessions : s.id # id}
deleteUserSessions(userId) == {s \in sessions : s.userId # userId}

\* A lookup that would honour an expired reset token.
getPasswordResetTokenIgnoringExpiry(token) ==
  FirstOf({r \in Rows(passwordResetTokens) : r.token = token /\ r.used = FALSE})

getPasswordResetToken(token) ==
  FirstOf({r \in Rows(passwordResetTokens) :
             r.token = token /\ r.used = FALSE /\ r.expiresAt > now})

\* A redemption that would leave the reset token as it found it.
keepPasswordResetToken(id) == passwordResetTokens

markPasswordResetTokenUsed(id) ==
  [i \in 1..Len(passwordResetTokens) |->
     IF passwordResetTokens[i].id = id
     THEN [passwordResetTokens[i] EXCEPT !.used = TRUE]
     ELSE passwordResetTokens[i]]

\* A lookup that would honour a used challenge.
getAuthChallengeIgnoringUsed(walletAddress, challenge) ==
  FirstOf({c \in Rows(authChallenges) :
             /\ c.walletAddress = walletAddress
             /\ c.challenge = challenge
             /\ c.expiresAt > now})

\* A lookup that would honour a challenge issued to any wallet.
getAuthChallengeAnyWallet(walletAddress, challenge) ==
  FirstOf({c \in Rows(authChallenges) :
             /\ c.challenge = challenge
             /\ c.used = FALSE
             /\ c.expiresAt > now})

getAuthChallenge(walletAddress, challenge) ==
  FirstOf({c \in Rows(authChallenges) :
             /\ c.walletAddress = walletAddress
             /\ c.challenge = challenge
             /\ c.used = FALSE
             /\ c.expiresAt > now})

\* A verification that would leave the challenge as it found it.
keepAuthChallenge(id) == authChallenges

markAuthChallengeUsed(id) ==
  [i \in 1..Len(authChallenges) |->
     IF authChallenges[i].id = id
     THEN [authChallenges[i] EXCEPT !.used = TRUE]
     ELSE authChallenges[i]]

(***************************************************************************)
(* Handlers.                                                               *)
(***************************************************************************)
\* A new handler invocation: request number n, its body `in`, its locals.
Fresh(kind, in, n) ==
  [n |-> n, kind |-> kind, pc |-> "start", in |-> in, status |-> 0, body |-> "",
   token |-> NoToken, user |-> NoUser, row |-> NoRow, live |-> FALSE,
   expiresAt |-> 0, hash |-> NoHash, cause |-> "", seq0 |-> sessionSeq,
   wrote |-> {}, threw |-> FALSE,
   after |-> FALSE, stale |-> FALSE, again |-> FALSE, checks |-> {},
   at |-> 0]

Accept(limit) ==
  /\ Cardinality(inflight) < Cardinality(Slots)
  /\ started < limit
  /\ started' = started + 1

\* The handler r awaits its next store call as r2.
Await(r, r2) ==
  /\ inflight' = (inflight \ {r}) \cup {r2}
  /\ response' = NoResponse
  /\ UNCHANGED procVars

\* The handler r answers and ends; `out` is r with its last locals.
Reply(r, out, status, body) ==
  /\ inflight' = inflight \ {r}
  /\ response' = [out EXCEPT !.pc = "done", !.status = status, !.body = body]
  /\ UNCHANGED procVars

\* Date.now() moves on by one of the steps of D.
Tick(D) ==
  /\ ticks < MaxTicks
  /\ \E d \in D : now + d <= MaxNow /\ now' = now + d
  /\ ticks' = ticks + 1
  /\ response' = NoResponse
  /\ UNCHANGED <<dbVars, inflight, started, clientTokens, mailbox, hist,
                 procVars>>

(***************************************************************************)
(* POST /auth/wallet/challenge                                             *)
(***************************************************************************)
\* walletAddress is a string of 32..44 characters (a one-element tuple models
\* a string that is too short).
WalletAddressOk(w) == w \notin {NoWallet, EmptyWallet} /\ Len(w) = 2

generateChallenge(n, t) == ChallengeText(n, t)

ChallengeStart(w) ==
  /\ Accept(MaxWalletRequests)
  /\ LET r == Fresh("challenge", [walletAddress |-> w], started + 1)
     IN IF ~WalletAddressOk(w)
        THEN Reply(r, r, 400, "Invalid wallet address")
        ELSE Await(r, [r EXCEPT
               !.pc = "createAuthChallenge",
               !.row = [id |-> 0, walletAddress |-> w,
                        challenge |-> generateChallenge(started + 1, now),
                        expiresAt |-> now + ChallengeTtlMs]])
  /\ UNCHANGED <<now, ticks, dbVars, clientTokens, mailbox, hist>>

ChallengeInsert(r) ==
  /\ r.kind = "challenge" /\ r.pc = "createAuthChallenge"
  /\ authChallenges' = Append(authChallenges,
       [id |-> Len(authChallenges) + 1,
        walletAddress |-> r.row.walletAddress,
        challenge |-> r.row.challenge,
        expiresAt |-> r.row.expiresAt,
        used |-> FALSE])
  /\ Reply(r, [r EXCEPT !.wrote = {"authChallenges"}], 200, "challenge")
  /\ UNCHANGED <<now, ticks, users, sessions, sessionSeq, passwordResetTokens,
                 hashCount, started, clientTokens, mailbox, hist>>

(***************************************************************************)
(* POST /auth/wallet/verify                                                *)
(***************************************************************************)
VerifyInput(w, c, sg, pk) ==
  [walletAddress |-> w, challenge |-> c, signature |-> sg, publicKey |-> pk]

VerifyMissing(in) ==
  \/ in.walletAddress \in {NoWallet, EmptyWallet}
  \/ in.challenge = NoChallenge
  \/ in.signature = NoSignature
  \/ in.publicKey = NoKey

\* The token a login handler makes for `user` before it awaits createSession.
LoginToken(user) ==
  createJWT([userId |-> user.id, walletAddress |-> user.walletAddress,
             email |-> user.email, role |-> user.role], now)

\* History: the issued challenge texts among C, added to those for which a
\* verify request was rejected for its signature or for a missing field.
Rejected(C) ==
  [hist EXCEPT !.rejected =
     @ \cup (C \cap {row.challenge : row \in Rows(authChallenges)})]

VerifyStart(in) ==
  /\ Accept(MaxWalletRequests)
  /\ LET r == Fresh("verify", in, started + 1)
     IN IF VerifyMissing(in)
        THEN /\ Reply(r, r, 400, "Missing required fields")
             /\ hist' = Rejected({in.challenge})
        ELSE /\ Await(r, [r EXCEPT
                    !.pc = "getAuthChallenge",
                    !.after = <<in.challenge, in.signature>> \in hist.verified])
             /\ UNCHANGED hist
  /\ UNCHANGED <<now, ticks, dbVars, clientTokens, mailbox>>

\* History: a persisted challenge for exactly this address and text is
\* unused and unexpired, now.
LiveChallenge(w, c) ==
  \E row \in Rows(authChallenges) :
    /\ row.walletAddress = w /\ row.challenge = c
    /\ ~row.used /\ now < row.expiresAt

\* A lookup that marks the challenge used before it checks the signature.
VerifyLookupConsuming(r) ==
  /\ r.kind = "verify" /\ r.pc = "getAuthChallenge"
  /\ LET authChallenge == getAuthChallenge(r.in.walletAddress, r.in.challenge)
         r2 == [r EXCEPT !.row = authChallenge,
                         !.live = LiveChallenge(r.in.walletAddress, r.in.challenge)]
     IN IF authChallenge.id = 0
        THEN Reply(r, r2, 400, "Invalid or expired challenge")
             /\ UNCHANGED <<hist, authChallenges>>
        ELSE IF ~verifyWalletSignature(r.in.challenge, r.in.signature,
                                       r.in.publicKey)
        THEN Reply(r, r2, 401, "Invalid signature")
             /\ hist' = Rejected({r.in.challenge})
             /\ authChallenges' = markAuthChallengeUsed(authChallenge.id)
        ELSE Await(r, [r2 EXCEPT !.pc = "markAuthChallengeUsed"])
             /\ UNCHANGED <<hist, authChallenges>>
  /\ UNCHANGED <<now, ticks, users, sessions, sessionSeq, passwordResetTokens,
                 hashCount, started, clientTokens, mailbox>>

\* getAuthChallenge returns; then the signature is checked.
VerifyLookup(r) ==
  /\ r.kind = "verify" /\ r.pc = "getAuthChallenge"
  /\ LET authChallenge == getAuthChallenge(r.in.walletAddress, r.in.challenge)
         r2 == [r EXCEPT !.row = authChallenge,
                         !.live = LiveChallenge(r.in.walletAddress, r.in.challenge)]
     IN IF authChallenge.id = 0
        THEN Reply(r, r2, 400, "Invalid or expired challenge")
             /\ UNCHANGED hist
        ELSE IF ~verifyWalletSignature(r.in.challenge, r.in.signature,
                                       r.in.publicKey)
        THEN Reply(r, r2, 401, "Invalid signature")
             /\ hist' = Rejected({r.in.challenge})
        ELSE Await(r, [r2 EXCEPT !.pc = "markAuthChallengeUsed"])
             /\ UNCHANGED hist
  /\ UNCHANGED <<now, ticks, dbVars, started, clientTokens, mailbox>>

VerifyMark(r) ==
  /\ r.kind = "verify" /\ r.pc = "markAuthChallengeUsed"
  /\ authChallenges' = markAuthChallengeUsed(r.row.id)
  /\ Await(r, [r EXCEPT !.pc = "getUserByWallet",
                        !.wrote = @ \cup {"authChallenges"}])
  /\ UNCHANGED <<now, ticks, users, sessions, sessionSeq, passwordResetTokens,
                 hashCount, started, clientTokens, mailbox, hist>>

\* `normie_${walletAddress.slice(0, 8)}`
WalletUsername(w) == <<"normie_", w[1]>>

\* The handler has its user: it makes the token and awaits createSession.
ToCreateSession(r, user) ==
  [r EXCEPT !.pc = "createSession", !.user = user, !.token = LoginToken(user),
            !.expiresAt = now + SessionTtlMs]

VerifyGetUser(r) ==
  /\ r.kind = "verify" /\ r.pc = "getUserByWallet"
  /\ LET w == r.in.walletAddress
         user == getUserByWallet(w)
     IN IF user.id = 0
        THEN Await(r, [r EXCEPT !.pc = "createUser",
                  !.user = [id |-> 0, walletAddress |-> w, email |-> NoEmail,
                            passwordHash |-> NoHash,
                            username |-> WalletUsername(w),
                            role |-> determineRole(w)]])
        ELSE IF user.role # "admin" /\ determineRole(w) = "admin"
        THEN Await(r, [r EXCEPT !.pc = "updateUser", !.user = user])
        ELSE Await(r, ToCreateSession(r, user))
  /\ UNCHANGED <<now, ticks, dbVars, started, clientTokens, mailbox, hist>>

VerifyCreateUser(r) ==
  /\ r.kind = "verify" /\ r.pc = "createUser"
  /\ IF UserInsertOk(r.user)
     THEN /\ users' = Append(users, NewUser(r.user))
          /\ Await(r, ToCreateSession([r EXCEPT !.wrote = @ \cup {"users"}],
                                      NewUser(r.user)))
     ELSE /\ Reply(r, [r EXCEPT !.threw = TRUE, !.cause = "unique"], 500,
                   "Authentication failed")
          /\ UNCHANGED users
  /\ UNCHANGED <<now, ticks, sessions, sessionSeq, passwordResetTokens,
                 authChallenges, hashCount, started, clientTokens,
                 mailbox, hist>>

\* An update that writes nothing.
updateNoUser(id, column, value) == users

\* storage.updateUser(id, data): the row with data's column replaced.
updateUser(id, column, value) ==
  [i \in 1..Len(users) |->
     IF users[i].id = id THEN [users[i] EXCEPT ![column] = value] ELSE users[i]]

VerifyUpdateUser(r) ==
  /\ r.kind = "verify" /\ r.pc = "updateUser"
  /\ users' = updateUser(r.user.id, "role", "admin")
  /\ LET updated == FirstOf({u \in Rows(users') : u.id = r.user.id})
         user == IF updated.id # 0 THEN updated ELSE r.user
     IN Await(r, ToCreateSession([r EXCEPT !.wrote = @ \cup {"users"}], user))
  /\ UNCHANGED <<now, ticks, sessions, sessionSeq, passwordResetTokens,
                 authChallenges, hashCount, started, clientTokens,
                 mailbox, hist>>

\* createSession, then the cookie and the JSON body with the token.
VerifyCreateSession(r) ==
  /\ r.kind = "verify" /\ r.pc = "createSession"
  /\ IF SessionInsertOk(r.token)
     THEN /\ sessions' = sessions \cup {NewSession(r.user.id, r.token, r.expiresAt)}
          /\ sessionSeq' = sessionSeq + 1
          /\ Reply(r, [r EXCEPT !.wrote = @ \cup {"sessions"},
                             !.again = r.row.id \in hist.consumed], 200, "user")
          /\ clientTokens' = clientTokens \cup {r.token}
          /\ hist' = [hist EXCEPT
               !.verified = @ \cup {<<r.in.challenge, r.in.signature>>},
               !.consumed = @ \cup {r.row.id}]
     ELSE /\ Reply(r, [r EXCEPT !.threw = TRUE], 500, "Authentication failed")
          /\ UNCHANGED <<sessions, sessionSeq, clientTokens, hist>>
  /\ UNCHANGED <<now, ticks, users, passwordResetTokens, authChallenges,
                 hashCount, started, mailbox>>

(***************************************************************************)
(* A store call that throws: the handler's catch block answers 500.        *)
(***************************************************************************)
CatchBody(r) ==
  LET kind == r.kind IN
  CASE r.pc \in {"getSessionByToken", "getUser"} -> "Authentication error"
    [] kind = "admin" -> "Invalid token"
    [] kind = "requestReset" ->
         "If an account exists, a reset email has been sent"
    [] kind = "optional" -> "next"
    [] kind = "challenge" -> "Failed to generate challenge"
    [] kind = "verify" -> "Authentication failed"
    [] kind = "register" -> "Registration failed"
    [] kind = "login" -> "Login failed"
    [] kind = "logout" -> "Logout failed"
    [] kind = "reset" -> "Password reset failed"
    [] kind = "changePassword" -> "Failed to change password"
    [] kind = "profile" -> "Failed to update profile"
    [] OTHER -> "Failed to get user"

\* requireAdmin's catch answers 401 and /request-reset's catch res.json (200);
\* optionalAuthMiddleware's catch calls next(); every other catch answers 500.
CatchStatus(r) ==
  IF r.kind = "admin" THEN 401
  ELSE IF r.kind \in {"requestReset", "optional"} THEN 200 ELSE 500

\* /request-reset has answered before it awaits createPasswordResetToken and
\* sgMail.send: its catch block calls res.json again, on a response whose
\* headers are sent. That call throws inside the catch block, nothing more is
\* sent, and the handler's promise rejects: pc "rejected", with again set
\* for the second res.json.
StoreError(r) ==
  /\ IF r.kind = "requestReset" /\ r.pc # "getUserByEmail"
     THEN /\ inflight' = inflight \ {r}
          /\ response' = [r EXCEPT !.pc = "rejected", !.threw = TRUE,
                                   !.again = TRUE]
          /\ UNCHANGED procVars
     ELSE Reply(r, [r EXCEPT !.threw = TRUE], CatchStatus(r), CatchBody(r))
  /\ UNCHANGED <<now, ticks, dbVars, started, clientTokens, mailbox, hist>>

(***************************************************************************)
(* The wallet login: challenge and verify requests.                        *)
(***************************************************************************)
\* A wallet identity made by an earlier wallet login, before the deployment
\* named its operator wallet.
SeedWalletUser(id, w) ==
  [id |-> id, walletAddress |-> w, email |-> NoEmail, passwordHash |-> NoHash,
   username |-> WalletUsername(w), role |-> "user", bio |-> NullText,
   bannedAt |-> NullDate]

\* A challenge row as POST /wallet/challenge leaves it.
SeedChallenge(id, w) ==
  [id |-> id, walletAddress |-> w, challenge |-> generateChallenge(0 - id, 0),
   expiresAt |-> 0 + ChallengeTtlMs, used |-> FALSE]

InitWallet ==
  /\ env = ConfiguredSecret /\ boots = 1 /\ JWT_SECRET = LoadSecret(env, boots)
  /\ adminEnv = WalletB
  /\ now = 0 /\ ticks = 0
  /\ users = <<SeedWalletUser(1, WalletB)>>
  /\ sessions = {} /\ sessionSeq = 0
  /\ passwordResetTokens = <<>>
  /\ authChallenges = <<SeedChallenge(1, WalletA)>>
  /\ hashCount = 0
  /\ inflight = {} /\ response = NoResponse
  /\ started = 0
  /\ clientTokens = {} /\ mailbox = {}
  /\ hist = HistInit

\* What a client may send to /wallet/verify: a claimed address, a challenge
\* text (one the server issued, or another), a signature made with the
\* claimed wallet's key or with an outsider's, and a public key.
VerifyInputs ==
  UNION {
    { VerifyInput(wc[1], wc[2], Sign(k, wc[2]), k) :
        k \in {KeyOf(wc[1]), OutsiderKey} } :
    wc \in Wallets \X
           ({r.challenge : r \in Rows(authChallenges)} \cup {BogusChallenge}) }
  \cup { VerifyInput(r.walletAddress, r.challenge,
                     Sign(OutsiderKey, r.challenge), KeyOf(r.walletAddress)) :
           r \in Rows(authChallenges) }
  \cup {VerifyInput(WalletA, BogusChallenge, NoSignature, KeyOf(WalletA))}

WalletTimeSteps == {ChallengeTtlMs - 1, ChallengeTtlMs}

WalletNext ==
  \/ Tick(WalletTimeSteps)
  \/ \E w \in Wallets \cup {<<"short">>} : ChallengeStart(w)
  \/ \E in \in VerifyInputs : VerifyStart(in)
  \/ \E r \in inflight :
       \/ ChallengeInsert(r)
       \/ VerifyLookup(r)
       \/ VerifyMark(r)
       \/ VerifyGetUser(r)
       \/ VerifyCreateUser(r)
       \/ VerifyUpdateUser(r)
       \/ VerifyCreateSession(r)
       \/ StoreError(r)

SpecWallet == InitWallet /\ [][WalletNext]_vars

(***************************************************************************)
(* Roles: deployments that name WalletA, WalletB, "" or nothing as their   *)
(* operator wallet; wallet logins, and determineRole called by itself.     *)
(***************************************************************************)
AdminEnvs == {NoWallet, EmptyWallet, WalletA, WalletB}

DetermineRoleInputs == {NoWallet, EmptyWallet, WalletA, WalletB}

InitRole ==
  /\ env = ConfiguredSecret /\ boots = 1 /\ JWT_SECRET = LoadSecret(env, boots)
  /\ adminEnv \in AdminEnvs
  /\ now = 0 /\ ticks = 0
  /\ users = <<SeedWalletUser(1, WalletB)>>
  /\ sessions = {} /\ sessionSeq = 0
  /\ passwordResetTokens = <<>>
  /\ authChallenges = <<SeedChallenge(1, WalletA), SeedChallenge(2, WalletB)>>
  /\ hashCount = 0
  /\ inflight = {} /\ response = NoResponse
  /\ started = 0
  /\ clientTokens = {} /\ mailbox = {}
  /\ hist = HistInit

CallDetermineRole(walletAddress) ==
  /\ response' = [kind |-> "determineRole", pc |-> "done", status |-> 0,
                  in |-> [walletAddress |-> walletAddress],
                  result |-> determineRole(walletAddress)]
  /\ UNCHANGED <<now, ticks, dbVars, inflight, started, clientTokens, mailbox,
                 hist, procVars>>

\* Each issued challenge, signed by the wallet it was issued to.
RoleVerifyInputs ==
  {VerifyInput(row.walletAddress, row.challenge,
               Sign(KeyOf(row.walletAddress), row.challenge),
               KeyOf(row.walletAddress)) : row \in Rows(authChallenges)}

RoleNext ==
  \/ \E w \in DetermineRoleInputs : CallDetermineRole(w)
  \/ \E in \in RoleVerifyInputs : VerifyStart(in)
  \/ \E r \in inflight :
       \/ VerifyLookup(r)
       \/ VerifyMark(r)
       \/ VerifyGetUser(r)
       \/ VerifyCreateUser(r)
       \/ VerifyUpdateUser(r)
       \/ VerifyCreateSession(r)
       \/ StoreError(r)

SpecRole == InitRole /\ [][RoleNext]_vars

(***************************************************************************)
(* First wallet logins, on a store that holds the identity of WalletA2.    *)
(***************************************************************************)
InitFirstLogin ==
  /\ env = ConfiguredSecret /\ boots = 1 /\ JWT_SECRET = LoadSecret(env, boots)
  /\ adminEnv = NoWallet
  /\ now = 0 /\ ticks = 0
  /\ users = <<SeedWalletUser(1, WalletA2)>>
  /\ sessions = {} /\ sessionSeq = 0
  /\ passwordResetTokens = <<>>
  /\ authChallenges = <<SeedChallenge(1, WalletA), SeedChallenge(2, WalletB)>>
  /\ hashCount = 0
  /\ inflight = {} /\ response = NoResponse
  /\ started = 0
  /\ clientTokens = {} /\ mailbox = {}
  /\ hist = HistInit

FirstLoginNext ==
  \/ Tick(WalletTimeSteps)
  \/ \E in \in RoleVerifyInputs : VerifyStart(in)
  \/ \E r \in inflight :
       \/ VerifyLookup(r)
       \/ VerifyMark(r)
       \/ VerifyGetUser(r)
       \/ VerifyCreateUser(r)
       \/ VerifyCreateSession(r)
       \/ StoreError(r)

SpecFirstLogin == InitFirstLogin /\ [][FirstLoginNext]_vars

(***************************************************************************)
(* Wallet logins retried: for the issued challenge the wallet's own        *)
(* signature, an outsider's signature and a body with a field left out.    *)
(***************************************************************************)
RetryInputs ==
  UNION {
    { VerifyInput(row.walletAddress, row.challenge,
                  Sign(KeyOf(row.walletAddress), row.challenge),
                  KeyOf(row.walletAddress)),
      VerifyInput(row.walletAddress, row.challenge,
                  Sign(OutsiderKey, row.challenge), KeyOf(row.walletAddress)),
      VerifyInput(row.walletAddress, row.challenge, NoSignature,
                  KeyOf(row.walletAddress)),
      VerifyInput(row.walletAddress, row.challenge,
                  Sign(KeyOf(row.walletAddress), row.challenge), NoKey) } :
    row \in Rows(authChallenges) }

RetryNext ==
  \/ Tick(WalletTimeSteps)
  \/ \E in \in RetryInputs : VerifyStart(in)
  \/ \E r \in inflight :
       \/ VerifyLookup(r)
       \/ VerifyMark(r)
       \/ VerifyGetUser(r)
       \/ VerifyCreateUser(r)
       \/ VerifyCreateSession(r)
       \/ StoreError(r)

SpecRetry == InitWallet /\ [][RetryNext]_vars

(***************************************************************************)
(* Password acceptance policy of the validators:                           *)
(* isLength({min: 8}).matches(/^(?=.*[a-z])(?=.*[A-Z])(?=.*\d)/)           *)
(***************************************************************************)
PasswordOk(p) == p.len >= 8 /\ p.lower /\ p.upper /\ p.digit

\* isLength({min: 3, max: 50}).matches(/^[a-zA-Z0-9_]+$/)
UsernameOk(u) == u # NoUsername

\* isEmail(): the empty string stands for every string that is no address.
EmailOk(e) == e # NoEmail

\* normalizeEmail(): the address in lower case.
normalizeEmail(e) == IF e = EmailBUpper THEN EmailB ELSE e

\* History: what the table says of the identity a handler is reading, now.
IdentityState(rows) ==
  (IF rows # {} THEN {"user"} ELSE {})
  \cup (IF \E u \in rows : u.bannedAt = NullDate THEN {"notBanned"} ELSE {})

\* History: the checks a presented token passes before any table is read.
TokenState(token) ==
  (IF token # NoToken THEN {"token"} ELSE {})
  \cup (IF token # NoToken /\ verifyJWT(token, now) # NoClaims
        THEN {"jwt"} ELSE {})

\* History: what the table says of the session of a token, now.
SessionState(token) ==
  IF \E x \in sessions : x.token = token /\ now < x.expiresAt THEN "live"
  ELSE IF \E x \in sessions : x.token = token THEN "expired"
  ELSE "absent"

(***************************************************************************)
(* POST /auth/login                                                        *)
(***************************************************************************)
LoginStart(in) ==
  /\ Accept(MaxRequests)
  /\ LET r == Fresh("login", in, started + 1)
     IN IF in.email = NoEmail \/ in.password.len = 0
        THEN Reply(r, r, 400, "errors")
        ELSE Await(r, [r EXCEPT !.pc = "getUserByEmail"])
  /\ UNCHANGED <<now, ticks, dbVars, clientTokens, mailbox, hist>>

\* getUserByEmail returns; bcrypt.compare reads nothing shared, so the
\* handler runs on to createJWT and awaits createSession.
LoginGetUser(r) ==
  /\ r.kind = "login" /\ r.pc = "getUserByEmail"
  /\ LET user == getUserByEmail(r.in.email)
         r1 == [r EXCEPT !.checks = IdentityState(
                   {u \in Rows(users) : u.email = r.in.email})]
     IN IF user.id = 0 \/ user.passwordHash = NoHash
        THEN Reply(r, r1, 401, "Invalid credentials")
        ELSE IF user.bannedAt # NullDate
        THEN Reply(r, [r1 EXCEPT !.user = user], 403, "Account banned")
        ELSE IF ~verifyPassword(r.in.password, user.passwordHash)
        THEN Reply(r, [r1 EXCEPT !.user = user], 401, "Invalid credentials")
        ELSE Await(r, ToCreateSession(r1, user))
  /\ UNCHANGED <<now, ticks, dbVars, started, clientTokens, mailbox, hist>>

LoginCreateSession(r) ==
  /\ r.kind = "login" /\ r.pc = "createSession"
  /\ IF SessionInsertOk(r.token)
     THEN /\ sessions' = sessions \cup {NewSession(r.user.id, r.token, r.expiresAt)}
          /\ sessionSeq' = sessionSeq + 1
          /\ Reply(r, [r EXCEPT !.wrote = @ \cup {"sessions"}], 200, "user")
          /\ clientTokens' = clientTokens \cup {r.token}
     ELSE /\ Reply(r, [r EXCEPT !.threw = TRUE, !.cause = "unique"], 500,
                   "Login failed")
          /\ UNCHANGED <<sessions, sessionSeq, clientTokens>>
  /\ UNCHANGED <<now, ticks, users, passwordResetTokens, authChallenges,
                 hashCount, started, mailbox, hist>>

(***************************************************************************)
(* POST /auth/reset-password                                               *)
(***************************************************************************)
\* History: why a lookup of this reset token text finds nothing, now.
ResetTokenState(token) ==
  LET rows == {row \in Rows(passwordResetTokens) : row.token = token}
  IN IF rows = {} THEN "absent"
     ELSE IF \A row \in rows : row.used THEN "used"
     ELSE IF \A row \in rows : row.used \/ ~(now < row.expiresAt) THEN "expired"
     ELSE "live"

\* History: another reset token of the identity that owns `token` has been
\* redeemed.
OwnerRedeemedAnother(token) ==
  \E row, other \in Rows(passwordResetTokens) :
    /\ row.token = token /\ other.userId = row.userId
    /\ other.token # token /\ other.token \in hist.redeemed

ResetStart(in) ==
  /\ Accept(MaxRequests)
  /\ LET r == Fresh("reset", in, started + 1)
     IN IF in.token = NoResetToken \/ ~PasswordOk(in.password)
        THEN Reply(r, [r EXCEPT !.after = in.token \in hist.redeemed], 400, "errors")
        ELSE Await(r, [r EXCEPT !.pc = "getPasswordResetToken",
                                !.after = in.token \in hist.redeemed,
                                !.stale = OwnerRedeemedAnother(in.token)])
  /\ UNCHANGED <<now, ticks, dbVars, clientTokens, mailbox, hist>>

\* getPasswordResetToken returns; bcrypt.hash draws a salt; the handler awaits
\* updateUser.
ResetLookup(r) ==
  /\ r.kind = "reset" /\ r.pc = "getPasswordResetToken"
  /\ LET resetToken == getPasswordResetToken(r.in.token)
         r2 == [r EXCEPT !.row = resetToken, !.cause = ResetTokenState(r.in.token)]
     IN IF resetToken.id = 0
        THEN /\ Reply(r, r2, 400, "Invalid or expired reset token")
             /\ UNCHANGED hashCount
        ELSE /\ Await(r, [r2 EXCEPT !.pc = "updateUser",
                            !.hash = hashPassword(r.in.password, hashCount + 1)])
             /\ hashCount' = hashCount + 1
  /\ UNCHANGED <<now, ticks, users, sessions, sessionSeq, passwordResetTokens,
                 authChallenges, started, clientTokens, mailbox, hist>>

ResetUpdateUser(r) ==
  /\ r.kind = "reset" /\ r.pc = "updateUser"
  /\ users' = updateUser(r.row.userId, "passwordHash", r.hash)
  /\ Await(r, [r EXCEPT !.pc = "markPasswordResetTokenUsed",
                        !.wrote = @ \cup {"users"}])
  /\ UNCHANGED <<now, ticks, sessions, sessionSeq, passwordResetTokens,
                 authChallenges, hashCount, started, clientTokens, mailbox, hist>>

ResetMarkUsed(r) ==
  /\ r.kind = "reset" /\ r.pc = "markPasswordResetTokenUsed"
  /\ passwordResetTokens' = markPasswordResetTokenUsed(r.row.id)
  /\ Await(r, [r EXCEPT !.pc = "deleteUserSessions",
                        !.wrote = @ \cup {"passwordResetTokens"}])
  /\ UNCHANGED <<now, ticks, users, sessions, sessionSeq, authChallenges,
                 hashCount, started, clientTokens, mailbox, hist>>

ResetDeleteSessions(r) ==
  /\ r.kind = "reset" /\ r.pc = "deleteUserSessions"
  /\ sessions' = deleteUserSessions(r.row.userId)
  /\ Reply(r, [r EXCEPT !.wrote = @ \cup {"sessions"},
                        !.again = r.in.token \in hist.redeemed], 200,
           "Password reset successfully")
  /\ hist' = [hist EXCEPT
       !.redeemed = @ \cup {r.in.token},
       !.revoked = @ \cup {x.token : x \in {y \in sessions : y.userId = r.row.userId}}]
  /\ UNCHANGED <<now, ticks, users, sessionSeq, passwordResetTokens,
                 authChallenges, hashCount, started, clientTokens, mailbox>>

(***************************************************************************)
(* authMiddleware, and the routes behind it                                *)
(***************************************************************************)
\* The bearer header, else the authToken cookie; then verifyJWT.
GateStart(kind, in) ==
  /\ Accept(MaxRequests)
  /\ LET r == [Fresh(kind, in, started + 1) EXCEPT
                 !.after = in.token \in hist.revoked,
                 !.again = in.token \in hist.loggedOut,
                 !.stale = in.token \in hist.changed,
                 !.checks = TokenState(in.token)]
     IN IF in.token = NoToken
        THEN Reply(r, r, 401, "Authentication required")
        ELSE IF verifyJWT(in.token, now) = NoClaims
        THEN Reply(r, r, 401, "Invalid or expired token")
        ELSE Await(r, [r EXCEPT !.pc = "getSessionByToken"])
  /\ UNCHANGED <<now, ticks, dbVars, clientTokens, mailbox, hist>>

GateSession(r) ==
  /\ r.pc = "getSessionByToken"
  /\ LET session == getSessionByToken(r.in.token)
         r1 == [r EXCEPT !.cause = SessionState(r.in.token),
                         !.checks = @ \cup
                           (IF SessionState(r.in.token) = "live"
                            THEN {"session"} ELSE {})]
     IN IF session.id = 0
        THEN Reply(r, r1, 401, "Session expired")
        ELSE Await(r, [r1 EXCEPT !.pc = "getUser", !.row = session])
  /\ UNCHANGED <<now, ticks, dbVars, started, clientTokens, mailbox, hist>>

\* PATCH /auth/profile behind the gate, up to its first await or its answer:
\* only username, bio, avatarUrl and holdingsVisible are read from the body
\* (bio stands for the last three).
ProfileHandler(r, r2, user) ==
  LET updates == [id |-> 0, username |-> NoUsername,
                  bio |-> IF r.in.bio = <<"">> THEN NullText ELSE r.in.bio,
                  hasBio |-> r.in.bio # NullText]
  IN IF r.in.username # NoUsername /\ ~UsernameOk(r.in.username)
     THEN Reply(r, r2, 400, "errors")
     ELSE IF r.in.username # NoUsername /\ r.in.username # user.username
     THEN Await(r, [r2 EXCEPT !.pc = "profile.getUserByUsername",
                              !.row = updates])
     ELSE IF ~updates.hasBio
     THEN Reply(r, r2, 400, "No valid fields to update")
     ELSE Await(r, [r2 EXCEPT !.pc = "profile.updateUser", !.row = updates])

\* getUser returns; on success req.user and req.token are set and next() runs
\* the route: GET /auth/me answers at once, POST /auth/logout awaits the
\* session of req.token.
GateUser(r) ==
  /\ r.pc = "getUser"
  /\ LET user == getUser(r.in.token.userId)
         r1 == [r EXCEPT !.checks = @ \cup IdentityState(
                   {u \in Rows(users) : u.id = r.in.token.userId})]
         r2 == [r1 EXCEPT !.user = user, !.token = r.in.token]
     IN IF user.id = 0
        THEN /\ Reply(r, r1, 401, "User not found") /\ UNCHANGED hashCount
        ELSE IF user.bannedAt # NullDate
        THEN /\ Reply(r, r1, 403, "Account banned") /\ UNCHANGED hashCount
        ELSE IF r.kind = "me"
        THEN /\ Reply(r, r2, 200, "user") /\ UNCHANGED hashCount
        ELSE IF r.kind = "logout"
        THEN /\ Await(r, [r2 EXCEPT !.pc = "logout.getSessionByToken"])
             /\ UNCHANGED hashCount
        ELSE IF r.kind = "profile"
        THEN /\ ProfileHandler(r, r2, user) /\ UNCHANGED hashCount
        ELSE \* POST /auth/change-password
             IF ~PasswordOk(r.in.newPassword) \/ r.in.currentPassword.len = 0
        THEN /\ Reply(r, r2, 400, "errors") /\ UNCHANGED hashCount
        ELSE IF user.passwordHash = NoHash
        THEN /\ Reply(r, r2, 400,
                      "Password change not available for wallet-only accounts")
             /\ UNCHANGED hashCount
        ELSE IF ~verifyPassword(r.in.currentPassword, user.passwordHash)
        THEN /\ Reply(r, r2, 401, "Current password is incorrect")
             /\ UNCHANGED hashCount
        ELSE /\ Await(r, [r2 EXCEPT !.pc = "changePassword.updateUser",
                            !.hash = hashPassword(r.in.newPassword, hashCount + 1)])
             /\ hashCount' = hashCount + 1
  /\ UNCHANGED <<now, ticks, users, sessions, sessionSeq, passwordResetTokens,
                 authChallenges, started, clientTokens, mailbox, hist>>

(***************************************************************************)
(* POST /auth/logout                                                       *)
(***************************************************************************)
LogoutSession(r) ==
  /\ r.kind = "logout" /\ r.pc = "logout.getSessionByToken"
  /\ LET session == getSessionByToken(r.token)
     IN IF session.id = 0
        THEN /\ Reply(r, r, 200, "Logged out successfully")
             /\ hist' = [hist EXCEPT !.loggedOut = @ \cup {r.token}]
        ELSE /\ Await(r, [r EXCEPT !.pc = "deleteSession", !.row = session])
             /\ UNCHANGED hist
  /\ UNCHANGED <<now, ticks, dbVars, started, clientTokens, mailbox>>

LogoutDelete(r) ==
  /\ r.kind = "logout" /\ r.pc = "deleteSession"
  /\ sessions' = deleteSession(r.row.id)
  /\ Reply(r, [r EXCEPT !.wrote = @ \cup {"sessions"}], 200,
           "Logged out successfully")
  /\ hist' = [hist EXCEPT !.loggedOut = @ \cup {r.token}]
  /\ UNCHANGED <<now, ticks, users, sessionSeq, passwordResetTokens,
                 authChallenges, hashCount, started, clientTokens, mailbox>>

(***************************************************************************)
(* storage.banUser and storage.unbanUser, called by the operator.          *)
(***************************************************************************)
Ban(id) ==
  /\ getUser(id).id # 0 /\ getUser(id).bannedAt = NullDate
  /\ users' = banUser(id)
  /\ response' = NoResponse
  /\ UNCHANGED <<now, ticks, sessions, sessionSeq, passwordResetTokens,
                 authChallenges, hashCount, inflight, started, clientTokens,
                 mailbox, hist, procVars>>

Unban(id) ==
  /\ getUser(id).id # 0 /\ getUser(id).bannedAt # NullDate
  /\ users' = unbanUser(id)
  /\ response' = NoResponse
  /\ UNCHANGED <<now, ticks, sessions, sessionSeq, passwordResetTokens,
                 authChallenges, hashCount, inflight, started, clientTokens,
                 mailbox, hist, procVars>>

ChangePasswordUpdate(r) ==
  /\ r.kind = "changePassword" /\ r.pc = "changePassword.updateUser"
  /\ users' = updateUser(r.user.id, "passwordHash", r.hash)
  /\ Reply(r, [r EXCEPT !.wrote = @ \cup {"users"}], 200,
           "Password changed successfully")
  /\ hist' = [hist EXCEPT !.changed = @ \cup
       {x.token : x \in {y \in sessions :
                           y.userId = r.user.id /\ y.token # r.token}}]
  /\ UNCHANGED <<now, ticks, sessions, sessionSeq, passwordResetTokens,
                 authChallenges, hashCount, started, clientTokens, mailbox>>

(***************************************************************************)
(* PATCH /auth/profile                                                     *)
(***************************************************************************)
ProfileUsername(r) ==
  /\ r.kind = "profile" /\ r.pc = "profile.getUserByUsername"
  /\ LET existingUsername == getUserByUsername(r.in.username)
     IN IF existingUsername.id # 0 /\ existingUsername.id # r.user.id
        THEN Reply(r, r, 400, "Username already taken")
        ELSE Await(r, [r EXCEPT !.pc = "profile.updateUser",
                                !.row.username = r.in.username])
  /\ UNCHANGED <<now, ticks, dbVars, started, clientTokens, mailbox, hist>>

\* The unique index on users.username, for an update.
UserUpdateOk(id, updates) ==
  updates.username # NoUsername =>
    \A o \in Rows(users) : o.id # id => o.username # updates.username

\* A profile update that writes the role as well.
updateUserProfileAndRole(id, updates) ==
  [i \in 1..Len(users) |->
     IF users[i].id = id
     THEN [users[i] EXCEPT !.role = "admin", !.bio = updates.bio]
     ELSE users[i]]

\* storage.updateUser(id, updates) for the columns of a profile.
updateUserProfile(id, updates) ==
  [i \in 1..Len(users) |->
     IF users[i].id = id
     THEN [users[i] EXCEPT
             !.username = IF updates.username # NoUsername
                          THEN updates.username ELSE @,
             !.bio = IF updates.hasBio THEN updates.bio ELSE @]
     ELSE users[i]]

ProfileUpdate(r) ==
  /\ r.kind = "profile" /\ r.pc = "profile.updateUser"
  /\ IF UserUpdateOk(r.user.id, r.row)
     THEN /\ users' = updateUserProfile(r.user.id, r.row)
          /\ Reply(r, [r EXCEPT !.wrote = @ \cup {"users"}], 200, "user")
     ELSE /\ Reply(r, [r EXCEPT !.threw = TRUE], 500,
                   "Failed to update profile")
          /\ UNCHANGED users
  /\ UNCHANGED <<now, ticks, sessions, sessionSeq, passwordResetTokens,
                 authChallenges, hashCount, started, clientTokens, mailbox,
                 hist>>

(***************************************************************************)
(* POST /auth/register                                                     *)
(***************************************************************************)
RegisterStart(in) ==
  /\ Accept(MaxRequests)
  /\ LET r == Fresh("register",
                    [in EXCEPT !.email = normalizeEmail(in.email)], started + 1)
     IN IF ~EmailOk(in.email) \/ ~PasswordOk(in.password)
           \/ ~UsernameOk(in.username)
        THEN Reply(r, r, 400, "errors")
        ELSE Await(r, [r EXCEPT !.pc = "register.getUserByEmail"])
  /\ UNCHANGED <<now, ticks, dbVars, clientTokens, mailbox, hist>>

RegisterEmail(r) ==
  /\ r.kind = "register" /\ r.pc = "register.getUserByEmail"
  /\ LET existingEmail == getUserByEmail(r.in.email)
     IN IF existingEmail.id # 0
        THEN Reply(r, r, 400, "Email already registered")
        ELSE Await(r, [r EXCEPT !.pc = "register.getUserByUsername"])
  /\ UNCHANGED <<now, ticks, dbVars, started, clientTokens, mailbox, hist>>

\* getUserByUsername returns; bcrypt.hash reads nothing shared, so the
\* handler runs on to await createUser.
RegisterUsername(r) ==
  /\ r.kind = "register" /\ r.pc = "register.getUserByUsername"
  /\ LET existingUsername == getUserByUsername(r.in.username)
     IN IF existingUsername.id # 0
        THEN /\ Reply(r, r, 400, "Username already taken")
             /\ UNCHANGED hashCount
        ELSE /\ Await(r, [r EXCEPT
                    !.pc = "register.createUser",
                    !.user = [id |-> 0, walletAddress |-> NoWallet,
                              email |-> r.in.email,
                              passwordHash |->
                                hashPassword(r.in.password, hashCount + 1),
                              username |-> r.in.username, role |-> "user"]])
             /\ hashCount' = hashCount + 1
  /\ UNCHANGED <<now, ticks, users, sessions, sessionSeq, passwordResetTokens,
                 authChallenges, started, clientTokens, mailbox, hist>>

\* createUser: the unique indexes of users make the insert throw when the
\* email or the username has been taken since the handler looked.
RegisterCreateUser(r) ==
  /\ r.kind = "register" /\ r.pc = "register.createUser"
  /\ IF UserInsertOk(r.user)
     THEN /\ users' = Append(users, NewUser(r.user))
          /\ Await(r, [ToCreateSession([r EXCEPT !.wrote = @ \cup {"users"}],
                                       NewUser(r.user))
                         EXCEPT !.pc = "register.createSession"])
     ELSE /\ Reply(r, [r EXCEPT !.threw = TRUE, !.cause = "unique"], 500,
                   "Registration failed")
          /\ UNCHANGED users
  /\ UNCHANGED <<now, ticks, sessions, sessionSeq, passwordResetTokens,
                 authChallenges, hashCount, started, clientTokens,
                 mailbox, hist>>

RegisterCreateSession(r) ==
  /\ r.kind = "register" /\ r.pc = "register.createSession"
  /\ IF SessionInsertOk(r.token)
     THEN /\ sessions' = sessions \cup {NewSession(r.user.id, r.token, r.expiresAt)}
          /\ sessionSeq' = sessionSeq + 1
          /\ Reply(r, [r EXCEPT !.wrote = @ \cup {"sessions"}], 201, "user")
          /\ clientTokens' = clientTokens \cup {r.token}
     ELSE /\ Reply(r, [r EXCEPT !.threw = TRUE], 500, "Registration failed")
          /\ UNCHANGED <<sessions, sessionSeq, clientTokens>>
  /\ UNCHANGED <<now, ticks, users, passwordResetTokens, authChallenges,
                 hashCount, started, mailbox, hist>>

(***************************************************************************)
(* An email identity with one live session and one reset token: the store  *)
(* after POST /auth/register and POST /auth/request-reset at time 0.       *)
(***************************************************************************)
SeedEmailUser ==
  [id |-> 1, walletAddress |-> NoWallet, email |-> EmailA,
   passwordHash |-> hashPassword(PwOld, 1), username |-> <<"alice">>,
   role |-> "user", bio |-> NullText, bannedAt |-> NullDate]

SeedToken ==
  createJWT([userId |-> 1, walletAddress |-> NoWallet, email |-> EmailA,
             role |-> "user"], 0)

SeedSession ==
  [id |-> 1, userId |-> 1, token |-> SeedToken, expiresAt |-> 0 + SessionTtlMs]

SeedResetToken ==
  [id |-> 1, userId |-> 1, token |-> ResetTokenText(1),
   expiresAt |-> 0 + ResetTtlMs, used |-> FALSE]

InitAccount ==
  /\ env = ConfiguredSecret /\ boots = 1 /\ JWT_SECRET = LoadSecret(env, boots)
  /\ adminEnv = WalletB
  /\ now = 0 /\ ticks = 0
  /\ users = <<SeedEmailUser>>
  /\ sessions = {SeedSession} /\ sessionSeq = 1
  /\ passwordResetTokens = <<SeedResetToken>>
  /\ authChallenges = <<>>
  /\ hashCount = 1
  /\ inflight = {} /\ response = NoResponse
  /\ started = 0
  /\ clientTokens = {SeedToken} /\ mailbox = {ResetTokenText(1)}
  /\ hist = HistInit

LoginInputs ==
  {[email |-> e, password |-> p] : e \in {EmailA}, p \in {PwOld, PwNew}}
  \cup {[email |-> EmailNone, password |-> PwOld],
        [email |-> NoEmail, password |-> PwOld]}

ResetInputs ==
  {[token |-> t, password |-> p] :
     t \in mailbox \cup {BogusResetToken}, p \in {PwNew}}
  \cup {[token |-> ResetTokenText(1), password |-> PwWeak]}

GateInputs == {[token |-> t] : t \in clientTokens \cup {NoToken}}

ResetTimeSteps == {ResetTtlMs - 1, ResetTtlMs}

(***************************************************************************)
(* Password reset redemption next to logins and requests through the gate. *)
(***************************************************************************)
ResetNext ==
  \/ Tick(ResetTimeSteps)
  \/ \E in \in LoginInputs : LoginStart(in)
  \/ \E in \in ResetInputs : ResetStart(in)
  \/ \E in \in GateInputs : GateStart("me", in)
  \/ \E r \in inflight :
       \/ LoginGetUser(r)
       \/ LoginCreateSession(r)
       \/ ResetLookup(r)
       \/ ResetUpdateUser(r)
       \/ ResetMarkUsed(r)
       \/ ResetDeleteSessions(r)
       \/ GateSession(r)
       \/ GateUser(r)
       \/ StoreError(r)

SpecReset == InitAccount /\ [][ResetNext]_vars

(***************************************************************************)
(* Password change next to logins and requests through the gate.           *)
(***************************************************************************)
ChangeInputs ==
  {[token |-> t, currentPassword |-> c, newPassword |-> n] :
     t \in clientTokens, c \in {PwOld, PwNew}, n \in {PwNew, PwWeak}}

ChangeNext ==
  \/ Tick({SecondMs, SessionTtlMs})
  \/ \E in \in LoginInputs : LoginStart(in)
  \/ \E in \in ChangeInputs : GateStart("changePassword", in)
  \/ \E in \in GateInputs : GateStart("me", in)
  \/ \E r \in inflight :
       \/ LoginGetUser(r)
       \/ LoginCreateSession(r)
       \/ GateSession(r)
       \/ GateUser(r)
       \/ ChangePasswordUpdate(r)
       \/ StoreError(r)

SpecChange == InitAccount /\ [][ChangeNext]_vars

(***************************************************************************)
(* The gate next to logins, logouts, clock advances and the operator's     *)
(* bans.                                                                   *)
(***************************************************************************)
GateTimeSteps == {SecondMs, SessionTtlMs}

\* A token of the client with its payload rewritten under the old signature.
ForgedGateInputs == {[token |-> [t EXCEPT !.role = "admin"]] : t \in clientTokens}

GateNext ==
  \/ Tick(GateTimeSteps)
  \/ Ban(1)
  \/ Unban(1)
  \/ \E in \in LoginInputs : LoginStart(in)
  \/ \E in \in GateInputs \cup ForgedGateInputs : GateStart("me", in)
  \/ \E in \in GateInputs : GateStart("logout", in)
  \/ \E r \in inflight :
       \/ LoginGetUser(r)
       \/ LoginCreateSession(r)
       \/ GateSession(r)
       \/ GateUser(r)
       \/ LogoutSession(r)
       \/ LogoutDelete(r)
       \/ StoreError(r)

SpecGate == InitAccount /\ [][GateNext]_vars

(***************************************************************************)
(* Both login paths next to the operator's bans: the email identity 1 and  *)
(* the wallet identity 2 of WalletA, which holds an issued challenge.      *)
(***************************************************************************)
InitBanned ==
  /\ env = ConfiguredSecret /\ boots = 1 /\ JWT_SECRET = LoadSecret(env, boots)
  /\ adminEnv = WalletB
  /\ now = 0 /\ ticks = 0
  /\ users = <<SeedEmailUser, SeedWalletUser(2, WalletA)>>
  /\ sessions = {} /\ sessionSeq = 0
  /\ passwordResetTokens = <<>>
  /\ authChallenges = <<SeedChallenge(1, WalletA)>>
  /\ hashCount = 1
  /\ inflight = {} /\ response = NoResponse
  /\ started = 0
  /\ clientTokens = {} /\ mailbox = {}
  /\ hist = HistInit

BannedNext ==
  \/ Tick(GateTimeSteps)
  \/ \E id \in {1, 2} : Ban(id)
  \/ \E id \in {1, 2} : Unban(id)
  \/ started < MaxAccountRequests /\ \E in \in LoginInputs : LoginStart(in)
  \/ started < MaxAccountRequests /\ \E in \in RoleVerifyInputs : VerifyStart(in)
  \/ \E r \in inflight :
       \/ LoginGetUser(r)
       \/ LoginCreateSession(r)
       \/ VerifyLookup(r)
       \/ VerifyMark(r)
       \/ VerifyGetUser(r)
       \/ VerifyCreateSession(r)
       \/ StoreError(r)

SpecBanned == InitBanned /\ [][BannedNext]_vars

(***************************************************************************)
(* server/routes.ts: requireAdmin, the guard of the /api/admin routes.     *)
(***************************************************************************)
\* The bearer header, else the cookie named `token` (the auth routes set the
\* cookie `authToken`, so that cookie is never there).
AdminStart(in) ==
  /\ Accept(MaxRequests)
  /\ LET token == IF in.bearer THEN in.token ELSE NoToken
         r == [Fresh("admin", in, started + 1) EXCEPT
                 !.checks = TokenState(token)]
     IN IF token = NoToken
        THEN Reply(r, r, 401, "Authentication required")
        ELSE IF verifyJWT(token, now) = NoClaims
        THEN Reply(r, r, 401, "Invalid token")
        ELSE Await(r, [r EXCEPT !.pc = "admin.sessions"])
  /\ UNCHANGED <<now, ticks, dbVars, clientTokens, mailbox, hist>>

AdminSession(r) ==
  /\ r.kind = "admin" /\ r.pc = "admin.sessions"
  /\ LET session == FirstOf({x \in sessions :
                               x.token = r.in.token /\ x.expiresAt > now})
         r1 == [r EXCEPT !.cause = SessionState(r.in.token),
                         !.checks = @ \cup
                           (IF SessionState(r.in.token) = "live"
                            THEN {"session"} ELSE {})]
     IN IF session.id = 0
        THEN Reply(r, r1, 401, "Session expired or invalid")
        ELSE Await(r, [r1 EXCEPT !.pc = "admin.users", !.row = session])
  /\ UNCHANGED <<now, ticks, dbVars, started, clientTokens, mailbox, hist>>

\* The users row is read; next() runs the admin route, which answers.
AdminUser(r) ==
  /\ r.kind = "admin" /\ r.pc = "admin.users"
  /\ LET user == FirstOf({u \in Rows(users) : u.id = r.in.token.userId})
         r1 == [r EXCEPT !.checks = @ \cup IdentityState(
                   {u \in Rows(users) : u.id = r.in.token.userId})]
     IN IF user.id = 0 \/ user.role # "admin"
        THEN Reply(r, r1, 403, "Admin access required")
        ELSE Reply(r, [r1 EXCEPT !.user = user], 200, "admin route")
  /\ UNCHANGED <<now, ticks, dbVars, started, clientTokens, mailbox, hist>>

\* The operator's identity, made by a wallet login, and its session.
SeedAdminUser ==
  [id |-> 2, walletAddress |-> WalletB, email |-> NoEmail,
   passwordHash |-> NoHash, username |-> WalletUsername(WalletB),
   role |-> "admin", bio |-> NullText, bannedAt |-> NullDate]

SeedAdminToken ==
  createJWT([userId |-> 2, walletAddress |-> WalletB, email |-> NoEmail,
             role |-> "admin"], 0)

SeedAdminSession ==
  [id |-> 2, userId |-> 2, token |-> SeedAdminToken,
   expiresAt |-> 0 + SessionTtlMs]

InitAdmin ==
  /\ env = ConfiguredSecret /\ boots = 1 /\ JWT_SECRET = LoadSecret(env, boots)
  /\ adminEnv = WalletB
  /\ now = 0 /\ ticks = 0
  /\ users = <<SeedEmailUser, SeedAdminUser>>
  /\ sessions = {SeedSession, SeedAdminSession} /\ sessionSeq = 2
  /\ passwordResetTokens = <<>>
  /\ authChallenges = <<>>
  /\ hashCount = 1
  /\ inflight = {} /\ response = NoResponse
  /\ started = 0
  /\ clientTokens = {SeedToken, SeedAdminToken} /\ mailbox = {}
  /\ hist = HistInit

AdminInputs ==
  {[token |-> t, bearer |-> b] : t \in clientTokens, b \in BOOLEAN}

AdminNext ==
  \/ Tick({SessionTtlMs})
  \/ \E id \in {1, 2} : Ban(id)
  \/ \E id \in {1, 2} : Unban(id)
  \/ \E in \in AdminInputs : AdminStart(in)
  \/ \E in \in GateInputs : GateStart("me", in)
  \/ \E r \in inflight :
       \/ AdminSession(r)
       \/ AdminUser(r)
       \/ GateSession(r)
       \/ GateUser(r)
       \/ StoreError(r)

SpecAdmin == InitAdmin /\ [][AdminNext]_vars

(***************************************************************************)
(* POST /auth/request-reset                                                *)
(***************************************************************************)
\* An answer that would tell whether the address is registered.
ResetRequestAnswerTelling(user) ==
  IF user.id = 0 THEN [status |-> 404, body |-> "No account with that email"]
  ELSE [status |-> 200,
        body |-> "If an account exists, a reset email has been sent"]

\* res.json({ message: ... }), sent once getUserByEmail has returned.
ResetRequestAnswer(user) ==
  [status |-> 200, body |-> "If an account exists, a reset email has been sent"]

\* A row that would be born used.
NewResetTokenRowUsed(r) ==
  [id |-> Len(passwordResetTokens) + 1, userId |-> r.user.id,
   token |-> r.row.token, expiresAt |-> r.expiresAt, used |-> TRUE]

\* createPasswordResetToken({userId, token, expiresAt}); used defaults to
\* false.
NewResetTokenRow(r) ==
  [id |-> Len(passwordResetTokens) + 1, userId |-> r.user.id,
   token |-> r.row.token, expiresAt |-> r.expiresAt, used |-> FALSE]

RequestResetStart(in) ==
  /\ Accept(MaxRequests)
  /\ LET r == Fresh("requestReset", in, started + 1)
     IN IF ~EmailOk(in.email)
        THEN Reply(r, r, 400, "errors")
        ELSE Await(r, [r EXCEPT !.pc = "getUserByEmail"])
  /\ UNCHANGED <<now, ticks, dbVars, clientTokens, mailbox, hist>>

\* getUserByEmail returns and the answer is sent; for a user the handler goes
\* on: it draws the token, computes expiresAt and awaits the insert.
RequestResetLookup(r) ==
  /\ r.kind = "requestReset" /\ r.pc = "getUserByEmail"
  /\ LET user == getUserByEmail(r.in.email)
         answer == ResetRequestAnswer(user)
         found == {u \in Rows(users) : u.email = r.in.email}
         r1 == [r EXCEPT !.checks = IdentityState(found), !.at = now]
         r2 == [r1 EXCEPT !.pc = "createPasswordResetToken", !.user = user,
                          !.row = [id |-> 0, token |-> ResetTokenText(r.n + 1)],
                          !.expiresAt = now + ResetTtlMs]
     IN /\ IF user.id = 0
           THEN /\ inflight' = inflight \ {r}
                /\ response' = [r1 EXCEPT !.pc = "done",
                                  !.status = answer.status, !.body = answer.body]
           ELSE /\ inflight' = (inflight \ {r}) \cup {r2}
                /\ response' = [r2 EXCEPT !.pc = "done",
                                  !.status = answer.status, !.body = answer.body]
        /\ hist' = [hist EXCEPT !.found = @ \cup
                      (IF found # {} THEN {r.n} ELSE {})]
  /\ UNCHANGED <<now, ticks, dbVars, started, clientTokens, mailbox, procVars>>

\* The row is inserted; with SendGrid configured the handler awaits the mail.
RequestResetInsert(r) ==
  /\ r.kind = "requestReset" /\ r.pc = "createPasswordResetToken"
  /\ passwordResetTokens' = Append(passwordResetTokens, NewResetTokenRow(r))
  /\ Await(r, [r EXCEPT !.pc = "sgMail.send",
                        !.wrote = @ \cup {"passwordResetTokens"}])
  /\ UNCHANGED <<now, ticks, users, sessions, sessionSeq, authChallenges,
                 hashCount, started, clientTokens, mailbox, hist>>

\* The mail with the reset link leaves; the handler ends.
RequestResetSend(r) ==
  /\ r.kind = "requestReset" /\ r.pc = "sgMail.send"
  /\ mailbox' = mailbox \cup {r.row.token}
  /\ inflight' = inflight \ {r}
  /\ response' = NoResponse
  /\ UNCHANGED <<now, ticks, dbVars, started, clientTokens, hist, procVars>>

RequestResetInputs == {[email |-> e] : e \in {EmailA, EmailNone, NoEmail}}

RequestNext ==
  \/ Tick(ResetTimeSteps)
  \/ \E in \in RequestResetInputs : RequestResetStart(in)
  \/ \E r \in inflight :
       \/ RequestResetLookup(r)
       \/ RequestResetInsert(r)
       \/ RequestResetSend(r)
       \/ StoreError(r)

SpecRequest == InitAccount /\ [][RequestNext]_vars

(***************************************************************************)
(* Registration beside the other operations on an email identity.          *)
(***************************************************************************)
\* Registrations: a new identity (its address in capitals, then in lower
\* case), an email and a username that the stored identity holds, and a
\* password the validators refuse.
RegisterInputs ==
  {[email |-> EmailBUpper, password |-> PwNew, username |-> <<"bob">>],
   [email |-> EmailB, password |-> PwNew, username |-> <<"bob">>],
   [email |-> EmailA, password |-> PwNew, username |-> <<"carol">>],
   [email |-> EmailNone, password |-> PwNew, username |-> <<"alice">>],
   [email |-> EmailB, password |-> PwWeak, username |-> <<"bob">>]}

\* Profile updates: a new username, a bio, and nothing; each body also
\* carries a role.
ProfileInputs ==
  {[token |-> t, username |-> ub[1], bio |-> ub[2], role |-> "admin"] :
     t \in clientTokens,
     ub \in {<<<<"bob">>, NullText>>, <<NoUsername, <<"hi">>>>,
             <<NoUsername, NullText>>}}

AccountInputs ==
  [login |-> {[email |-> EmailA, password |-> PwOld],
              [email |-> EmailB, password |-> PwNew]},
   changePassword |-> {[token |-> t, currentPassword |-> PwOld,
                        newPassword |-> PwNew] : t \in clientTokens},
   requestReset |-> {[email |-> EmailA]},
   reset |-> {[token |-> t, password |-> PwNew] : t \in mailbox}]

\* The steps of the register, profile, change-password and reset-password
\* handlers that are running.
AccountSteps(r) ==
  \/ RegisterEmail(r)
  \/ RegisterUsername(r)
  \/ RegisterCreateUser(r)
  \/ RegisterCreateSession(r)
  \/ GateSession(r)
  \/ GateUser(r)
  \/ ProfileUsername(r)
  \/ ProfileUpdate(r)
  \/ ChangePasswordUpdate(r)
  \/ ResetLookup(r)
  \/ ResetUpdateUser(r)
  \/ ResetMarkUsed(r)
  \/ ResetDeleteSessions(r)
  \/ StoreError(r)

RegisterNext ==
  \/ started < MaxAccountRequests /\ \E in \in RegisterInputs : RegisterStart(in)
  \/ started < MaxAccountRequests
       /\ \E in \in ProfileInputs : GateStart("profile", in)
  \/ started < MaxAccountRequests
       /\ \E in \in AccountInputs.login : LoginStart(in)
  \/ started < MaxAccountRequests
       /\ \E in \in AccountInputs.changePassword :
            GateStart("changePassword", in)
  \/ started < MaxAccountRequests
       /\ \E in \in AccountInputs.requestReset : RequestResetStart(in)
  \/ started < MaxAccountRequests
       /\ \E in \in AccountInputs.reset : ResetStart(in)
  \/ \E r \in inflight :
       \/ AccountSteps(r)
       \/ LoginGetUser(r)
       \/ LoginCreateSession(r)
       \/ RequestResetLookup(r)
       \/ RequestResetInsert(r)
       \/ RequestResetSend(r)

SpecRegister == InitAccount /\ [][RegisterNext]_vars

\* The store of InitAccount with a challenge issued to WalletA.
InitIdentity ==
  /\ env = ConfiguredSecret /\ boots = 1 /\ JWT_SECRET = LoadSecret(env, boots)
  /\ adminEnv = WalletB
  /\ now = 0 /\ ticks = 0
  /\ users = <<SeedEmailUser>>
  /\ sessions = {SeedSession} /\ sessionSeq = 1
  /\ passwordResetTokens = <<SeedResetToken>>
  /\ authChallenges = <<SeedChallenge(1, WalletA)>>
  /\ hashCount = 1
  /\ inflight = {} /\ response = NoResponse
  /\ started = 0
  /\ clientTokens = {SeedToken} /\ mailbox = {ResetTokenText(1)}
  /\ hist = HistInit

IdentityNext ==
  \/ started < MaxAccountRequests
       /\ \E in \in RoleVerifyInputs : VerifyStart(in)
  \/ started < MaxAccountRequests /\ \E in \in RegisterInputs : RegisterStart(in)
  \/ started < MaxAccountRequests
       /\ \E in \in ProfileInputs : GateStart("profile", in)
  \/ started < MaxAccountRequests
       /\ \E in \in AccountInputs.changePassword :
            GateStart("changePassword", in)
  \/ started < MaxAccountRequests
       /\ \E in \in AccountInputs.reset : ResetStart(in)
  \/ \E r \in inflight :
       \/ AccountSteps(r)
       \/ VerifyLookup(r)
       \/ VerifyMark(r)
       \/ VerifyGetUser(r)
       \/ VerifyCreateUser(r)
       \/ VerifyCreateSession(r)

SpecIdentity == InitIdentity /\ [][IdentityNext]_vars

(***************************************************************************)
(* The three handlers that create sessions, and requests through the gate  *)
(* with the tokens they gave out.                                          *)
(***************************************************************************)
OwnerNext ==
  \/ Tick(GateTimeSteps)
  \/ started < MaxAccountRequests
       /\ \E in \in RoleVerifyInputs : VerifyStart(in)
  \/ started < MaxAccountRequests /\ \E in \in RegisterInputs : RegisterStart(in)
  \/ started < MaxAccountRequests /\ \E in \in LoginInputs : LoginStart(in)
  \/ started < MaxAccountRequests /\ \E in \in GateInputs : GateStart("me", in)
  \/ \E r \in inflight :
       \/ VerifyLookup(r)
       \/ VerifyMark(r)
       \/ VerifyGetUser(r)
       \/ VerifyCreateUser(r)
       \/ VerifyCreateSession(r)
       \/ RegisterEmail(r)
       \/ RegisterUsername(r)
       \/ RegisterCreateUser(r)
       \/ RegisterCreateSession(r)
       \/ LoginGetUser(r)
       \/ LoginCreateSession(r)
       \/ GateSession(r)
       \/ GateUser(r)
       \/ StoreError(r)

SpecOwner == InitIdentity /\ [][OwnerNext]_vars

(***************************************************************************)
(* Redemptions of the two reset tokens an identity was sent.               *)
(***************************************************************************)
\* The row of an earlier reset request of the same identity.
SeedResetTokenEarlier ==
  [id |-> 2, userId |-> 1, token |-> ResetTokenText(0),
   expiresAt |-> 0 + ResetTtlMs, used |-> FALSE]

InitRedeem ==
  /\ env = ConfiguredSecret /\ boots = 1 /\ JWT_SECRET = LoadSecret(env, boots)
  /\ adminEnv = WalletB
  /\ now = 0 /\ ticks = 0
  /\ users = <<SeedEmailUser>>
  /\ sessions = {SeedSession} /\ sessionSeq = 1
  /\ passwordResetTokens = <<SeedResetToken, SeedResetTokenEarlier>>
  /\ authChallenges = <<>>
  /\ hashCount = 1
  /\ inflight = {} /\ response = NoResponse
  /\ started = 0
  /\ clientTokens = {SeedToken}
  /\ mailbox = {ResetTokenText(1), ResetTokenText(0)}
  /\ hist = HistInit

RedeemInputs ==
  {[token |-> t, password |-> p] : t \in mailbox, p \in {PwNew, PwOther}}

RedeemNext ==
  \/ Tick(ResetTimeSteps)
  \/ started < MaxAccountRequests /\ \E in \in RedeemInputs : ResetStart(in)
  \/ \E r \in inflight :
       \/ ResetLookup(r)
       \/ ResetUpdateUser(r)
       \/ ResetMarkUsed(r)
       \/ ResetDeleteSessions(r)
       \/ StoreError(r)

SpecRedeem == InitRedeem /\ [][RedeemNext]_vars

\* The same requests on the store of InitAccount, which holds one token.
SpecRedeemOne == InitAccount /\ [][RedeemNext]_vars

(***************************************************************************)
(* Where the gates read the token: the Authorization header and the        *)
(* cookies of the request.                                                 *)
(***************************************************************************)
\* req.headers.authorization: absent, or a scheme and what follows it.
NoHeader == [scheme |-> "", token |-> NoToken]
Bearer(t) == [scheme |-> "Bearer ", token |-> t]
Basic(t) == [scheme |-> "Basic ", token |-> t]

\* A reading that prefers the cookie.
RequestTokenCookieFirst(authHeader, cookieToken) ==
  IF cookieToken # NoToken THEN cookieToken ELSE authHeader.token

\* authHeader?.startsWith("Bearer ") ? authHeader.slice(7) : cookieToken
RequestToken(authHeader, cookieToken) ==
  IF authHeader.scheme = "Bearer " THEN authHeader.token ELSE cookieToken

\* The request as authMiddleware and optionalAuthMiddleware take it: its
\* header, its cookies, and the local `token` they read from them.
AuthRequest(authHeader, cookies) ==
  [authorization |-> authHeader, cookies |-> cookies,
   token |-> RequestToken(authHeader, cookies.authToken)]

(***************************************************************************)
(* optionalAuthMiddleware: every path ends in next(); "next" stands for    *)
(* the answer of the route behind it.                                      *)
(***************************************************************************)
OptionalStart(in) ==
  /\ Accept(MaxRequests)
  /\ LET r == [Fresh("optional", in, started + 1) EXCEPT
                 !.checks = TokenState(in.token)]
     IN IF in.token = NoToken \/ verifyJWT(in.token, now) = NoClaims
        THEN Reply(r, r, 200, "next")
        ELSE Await(r, [r EXCEPT !.pc = "optional.getSessionByToken"])
  /\ UNCHANGED <<now, ticks, dbVars, clientTokens, mailbox, hist>>

OptionalSession(r) ==
  /\ r.kind = "optional" /\ r.pc = "optional.getSessionByToken"
  /\ LET session == getSessionByToken(r.in.token)
         r1 == [r EXCEPT !.cause = SessionState(r.in.token),
                         !.checks = @ \cup
                           (IF SessionState(r.in.token) = "live"
                            THEN {"session"} ELSE {})]
     IN IF session.id = 0
        THEN Reply(r, r1, 200, "next")
        ELSE Await(r, [r1 EXCEPT !.pc = "optional.getUser", !.row = session])
  /\ UNCHANGED <<now, ticks, dbVars, started, clientTokens, mailbox, hist>>

OptionalUser(r) ==
  /\ r.kind = "optional" /\ r.pc = "optional.getUser"
  /\ LET user == getUser(r.in.token.userId)
         r1 == [r EXCEPT !.checks = @ \cup IdentityState(
                   {u \in Rows(users) : u.id = r.in.token.userId})]
     IN IF user.id # 0 /\ user.bannedAt = NullDate
        THEN Reply(r, [r1 EXCEPT !.user = user, !.token = r.in.token],
                   200, "next")
        ELSE Reply(r, r1, 200, "next")
  /\ UNCHANGED <<now, ticks, dbVars, started, clientTokens, mailbox, hist>>

\* A token of identity 1 with its payload rewritten under the old signature.
ForgedToken == [SeedToken EXCEPT !.role = "admin"]

\* Requests with a header, a cookie, both or neither.
CredentialInputs ==
  {AuthRequest(hc[1], [authToken |-> hc[2]]) : hc \in
     {<<NoHeader, NoToken>>, <<NoHeader, SeedToken>>, <<NoHeader, ForgedToken>>,
      <<Bearer(SeedToken), NoToken>>, <<Bearer(SeedToken), SeedAdminToken>>,
      <<Bearer(ForgedToken), SeedAdminToken>>,
      <<Bearer(NoToken), SeedToken>>, <<Basic(SeedToken), SeedAdminToken>>}}

CredentialNext ==
  \/ Ban(1)
  \/ \E in \in CredentialInputs : GateStart("me", in)
  \/ \E in \in CredentialInputs : OptionalStart(in)
  \/ \E r \in inflight :
       \/ GateSession(r)
       \/ GateUser(r)
       \/ OptionalSession(r)
       \/ OptionalUser(r)
       \/ StoreError(r)

SpecCredential == InitAdmin /\ [][CredentialNext]_vars

(***************************************************************************)
(* The token codec by itself: a process that loads its secret when it      *)
(* starts, issues tokens and verifies what clients send back.              *)
(***************************************************************************)
ClaimSets ==
  {[userId |-> 1, walletAddress |-> NoWallet, email |-> EmailA, role |-> "user"],
   [userId |-> 2, walletAddress |-> WalletB, email |-> NoEmail, role |-> "admin"]}

InitCodec ==
  /\ env \in {ConfiguredSecret, NoSecret}
  /\ adminEnv = WalletB
  /\ boots = 1 /\ JWT_SECRET = LoadSecret(env, boots)
  /\ now = 0 /\ ticks = 0
  /\ users = <<>> /\ sessions = {} /\ sessionSeq = 0
  /\ passwordResetTokens = <<>> /\ authChallenges = <<>>
  /\ hashCount = 0
  /\ inflight = {} /\ response = NoResponse
  /\ started = 0
  /\ clientTokens = {} /\ mailbox = {}
  /\ hist = HistInit

\* The process exits and starts again: the module is loaded anew.
ProcessStart ==
  /\ boots < MaxStarts
  /\ boots' = boots + 1
  /\ JWT_SECRET' = LoadSecret(env, boots + 1)
  /\ response' = NoResponse
  /\ UNCHANGED <<now, ticks, dbVars, inflight, started, clientTokens, mailbox,
                 hist, env, adminEnv>>

CallCreateJWT(payload) ==
  /\ Cardinality(clientTokens) < MaxIssued
  /\ LET token == createJWT(payload, now)
     IN /\ clientTokens' = clientTokens \cup {token}
        /\ response' = [kind |-> "createJWT", pc |-> "done", status |-> 0,
                        in |-> payload, token |-> token]
  /\ UNCHANGED <<now, ticks, dbVars, inflight, started, mailbox, hist, procVars>>

CallVerifyJWT(token) ==
  /\ response' = [kind |-> "verifyJWT", pc |-> "done", status |-> 0,
                  in |-> [token |-> token], result |-> verifyJWT(token, now)]
  /\ UNCHANGED <<now, ticks, dbVars, inflight, started, clientTokens, mailbox,
                 hist, procVars>>

\* What a client may present: a token it was given, the same with one
\* character of the signature segment replaced, with the payload segment
\* rewritten under the old signature, or signed by a secret of its own; or
\* a string that is no token.
TamperPositions == {1, SignatureLength}

VerifyJWTInputs ==
  clientTokens
  \cup {[t EXCEPT !.sig.tamper = i] : t \in clientTokens, i \in TamperPositions}
  \cup {[t EXCEPT !.role = "admin"] : t \in clientTokens}
  \cup {[t EXCEPT !.sig = Hmac(OutsiderSecret, Claims(t))] : t \in clientTokens}
  \cup {NoToken}

CodecTimeSteps == {SessionTtlMs + (SecondMs - 1), SessionTtlMs + SecondMs}

CodecNext ==
  \/ Tick(CodecTimeSteps)
  \/ ProcessStart
  \/ \E payload \in ClaimSets : CallCreateJWT(payload)
  \/ \E token \in VerifyJWTInputs : CallVerifyJWT(token)

SpecCodec == InitCodec /\ [][CodecNext]_vars

(***************************************************************************)
(* Properties.  `response` is the answer the last step sent; a handler     *)
(* still running is a member of `inflight`.                                *)
(***************************************************************************)
Answered(kind) == response.kind = kind /\ response.pc = "done"

Handlers(kind) == {r \in inflight \cup {response} : r.kind = kind}

\* C1: a challenge is consumed at most once under concurrency: no verify
\* request succeeds on a challenge row that an earlier verify request already
\* succeeded on.
C1_ChallengeConsumedOnce ==
  ~(Answered("verify") /\ response.status = 200 /\ response.again)

\* C2: once a verify request for a challenge/signature pair has completed
\* successfully, every verify request that starts later with the same pair
\* gets no token and no session, and is answered 400 'Invalid or expired
\* challenge' (500 when the store throws).
C2_ReplayRejected ==
  Answered("verify") /\ response.after =>
    /\ response.status # 200
    /\ response.token = NoToken
    /\ "sessions" \notin response.wrote
    /\ \/ response.threw /\ response.status = 500
       \/ response.status = 400 /\ response.body = "Invalid or expired challenge"

C2_Witness ==
  /\ Answered("verify") /\ response.after
  /\ response.status = 400 /\ response.body = "Invalid or expired challenge"
  /\ response.in.signature = Sign(KeyOf(WalletA), response.in.challenge)

\* C3: wallet login proves possession of the claimed wallet: a verify request
\* succeeds only when its signature verifies under the public key that the
\* claimed walletAddress denotes.
C3_ProvesPossession ==
  Answered("verify") /\ response.status = 200 =>
    /\ response.in.publicKey = KeyOf(response.in.walletAddress)
    /\ verifyWalletSignature(response.in.challenge, response.in.signature,
                             KeyOf(response.in.walletAddress))

\* C4: a verify request succeeds only if, when it looked the challenge up, a
\* persisted challenge existed for the exact wallet address and challenge
\* text, unused and unexpired with its expiry 5 minutes after its creation,
\* and the supplied signature validates over the text with the supplied key.
C4_VerifyConditions ==
  Answered("verify") /\ response.status = 200 =>
    /\ response.live
    /\ response.row.walletAddress = response.in.walletAddress
    /\ response.row.challenge = response.in.challenge
    /\ response.row.used = FALSE
    /\ response.row.expiresAt = response.row.challenge.ts + ChallengeTtlMs
    /\ verifyWalletSignature(response.in.challenge, response.in.signature,
                             response.in.publicKey)

C4_Witness ==
  /\ Answered("verify") /\ response.status = 200 /\ response.live
  /\ response.row.challenge.ts > 0
  /\ "sessions" \in response.wrote

\* C5: a verify request that has reached any identity mutation or session
\* creation has already marked its challenge used, and the challenge stays
\* used and is not found again when a later step of that request fails.
C5_MarkedBeforeMutation ==
  \A r \in Handlers("verify") :
    \/ r.pc \in {"getUserByWallet", "createUser", "updateUser", "createSession"}
    \/ r.wrote # {}
    => /\ "authChallenges" \in r.wrote
       /\ \E c \in Rows(authChallenges) : c.id = r.row.id /\ c.used
       /\ getAuthChallenge(r.in.walletAddress, r.in.challenge) = NoRow

C5_Witness ==
  /\ Answered("verify") /\ response.status = 500 /\ response.threw
  /\ "users" \in response.wrote /\ "sessions" \notin response.wrote
  /\ getAuthChallenge(response.in.walletAddress, response.in.challenge) = NoRow

\* C6: a request that presents a token whose session deleteUserSessions has
\* deleted is not let through the gate.
C6_RevokedTokenRejected ==
  Answered("me") /\ response.after => response.status # 200

\* C7: after a successful change-password, a request that presents another
\* session token issued to that identity before the change is not let through
\* the gate.
C7_ChangeRevokesSessions ==
  Answered("me") /\ response.stale => response.status # 200

\* C8: after a reset-password request with token T has completed
\* successfully, every reset-password request that starts later with T
\* changes no password hash and, with a well-formed password and no store
\* failure, is answered 400 'Invalid or expired reset token'.
C8_RedeemedOnce ==
  Answered("reset") /\ response.after =>
    /\ response.status # 200
    /\ "users" \notin response.wrote
    /\ PasswordOk(response.in.password) /\ ~response.threw =>
         /\ response.status = 400
         /\ response.body = "Invalid or expired reset token"

C8_Witness ==
  /\ Answered("reset") /\ response.after /\ response.cause = "used"
  /\ response.status = 400 /\ response.body = "Invalid or expired reset token"

\* C9: a redemption is atomic over its three writes: no redemption has marked
\* the token used without having changed the password, and none has changed
\* the password while a session of the owner that existed when the redemption
\* began is still honored.
C9_RedemptionAtomic ==
  \A r \in Handlers("reset") :
    /\ "passwordResetTokens" \in r.wrote => "users" \in r.wrote
    /\ "users" \in r.wrote =>
         ~ \E x \in sessions :
             /\ x.userId = r.row.userId /\ x.id <= r.seq0
             /\ getSessionByToken(x.token) = x

\* C10: a reset-password request with a well-formed password whose token is
\* absent, expired or already used when it is looked up is answered 400
\* 'Invalid or expired reset token' in all three cases, and changes no user,
\* no reset token and no session.
C10_NoOracle ==
  [][ /\ response'.kind = "reset" /\ response'.pc = "done"
      /\ response'.cause \in {"absent", "expired", "used"}
      /\ PasswordOk(response'.in.password) /\ ~response'.threw
      => /\ response'.status = 400
         /\ response'.body = "Invalid or expired reset token"
         /\ response'.wrote = {}
         /\ UNCHANGED <<users, passwordResetTokens, sessions>> ]_vars

C10_Witness ==
  /\ Answered("reset") /\ response.cause = "expired"
  /\ response.status = 400 /\ response.body = "Invalid or expired reset token"

\* C11: the signing secret is the configured one: no token is issued or
\* verified under a secret that the configuration did not supply, and an
\* unexpired token issued before a process restart verifies after it.
C11_SecretConfigured ==
  /\ Answered("createJWT") \/ Answered("verifyJWT") =>
       env # NoSecret /\ JWT_SECRET = env
  /\ Answered("verifyJWT") /\ response.in.token \in clientTokens
       /\ ~(response.in.token.exp < now \div SecondMs)
     => response.result # NoClaims

\* C12: token round trip: verifyJWT of a token createJWT made from claims C
\* under the same secret returns C with iat and exp = iat + 7 days at every
\* time up to the second exp names, and null at every later time.
C12_RoundTrip ==
  /\ Answered("createJWT") =>
       LET v == verifyJWT(response.token, now) IN
       /\ [userId |-> v.userId, walletAddress |-> v.walletAddress,
           email |-> v.email, role |-> v.role] = response.in
       /\ v.iat = now \div SecondMs
       /\ v.exp = v.iat + SESSION_DURATION_DAYS * 24 * 60 * 60
  /\ Answered("verifyJWT") /\ response.in.token \in clientTokens
       /\ response.in.token.sig.key = JWT_SECRET
     => LET t == response.in.token IN
        /\ now \div SecondMs <= t.exp =>
             /\ response.result = Claims(t)
             /\ response.result.exp =
                  response.result.iat + SESSION_DURATION_DAYS * 24 * 60 * 60
        /\ now \div SecondMs > t.exp => response.result = NoClaims

C12_Witness ==
  /\ Answered("verifyJWT") /\ response.in.token \in clientTokens
  /\ response.in.token.sig.key = JWT_SECRET
  /\ now \div SecondMs = response.in.token.exp
  /\ response.result = Claims(response.in.token)

\* C13: a token whose signature segment is not the HMAC, under the process
\* secret, of its header and payload segments is answered null: every
\* variant of a valid token with one signature character replaced, and
\* every rewritten payload under an old signature.
C13_TamperRejected ==
  Answered("verifyJWT") /\ response.in.token # NoToken =>
    LET t == response.in.token IN
    /\ t.sig.tamper # 0 => response.result = NoClaims
    /\ t.sig.key # JWT_SECRET => response.result = NoClaims
    /\ t.sig.msg # Claims(t) => response.result = NoClaims

C13_Witness ==
  /\ Answered("verifyJWT") /\ response.in.token # NoToken
  /\ response.in.token.sig.tamper = SignatureLength
  /\ [response.in.token EXCEPT !.sig.tamper = 0] \in clientTokens
  /\ response.in.token.sig.key = JWT_SECRET
  /\ ~(response.in.token.exp < now \div SecondMs)
  /\ response.result = NoClaims

\* The checks of the gate, in its order.
AllChecks == {"token", "jwt", "session", "user", "notBanned"}

\* A request that came through authMiddleware has been answered.
GateAnswered == Answered("me") \/ Answered("logout")

\* C14: the gate calls next() with req.user and req.token attached if and
\* only if a token is present, verifyJWT accepts it, an unexpired session row
\* exists for it, its identity exists and is not banned; otherwise it answers
\* with the rejection of the first check that failed and attaches nothing.
C14_GateStateMachine ==
  /\ \A r \in Handlers("me") \cup Handlers("logout") :
       /\ r.user # NoUser <=> r.checks = AllChecks /\ r.pc # "getUser"
       /\ r.user # NoUser =>
            r.token = r.in.token /\ r.user.id = r.in.token.userId
       /\ r.user = NoUser => r.token = NoToken /\ r.wrote = {}
  /\ GateAnswered /\ response.user = NoUser =>
       /\ response.status \in {401, 403, 500}
       /\ response.threw <=> response.status = 500
       /\ ~response.threw =>
            response.body =
              CASE "token" \notin response.checks -> "Authentication required"
                [] "jwt" \notin response.checks -> "Invalid or expired token"
                [] "session" \notin response.checks -> "Session expired"
                [] "user" \notin response.checks -> "User not found"
                [] OTHER -> "Account banned"
       /\ ~response.threw => response.checks # AllChecks

C14_Witness ==
  /\ Answered("me") /\ response.status = 200
  /\ response.checks = AllChecks
  /\ response.user.id = 1 /\ response.token = response.in.token

\* C15: no admin route guarded by requireAdmin authorizes a request whose
\* identity is banned when its row is read.
C15_AdminGateChecksBan ==
  Answered("admin") /\ response.status = 200 =>
    "notBanned" \in response.checks

\* C16: a request with a valid token and an active session whose identity is
\* banned when the gate reads it is answered 403 'Account banned', its
\* session row is left in place, an identity that is not banned (or no longer
\* banned) is let through, and an email login of a banned identity is
\* answered 403 'Account banned'.
C16_BanRejects ==
  /\ GateAnswered /\ ~response.threw
       /\ {"token", "jwt", "session", "user"} \subseteq response.checks
       /\ "notBanned" \notin response.checks
     => /\ response.status = 403 /\ response.body = "Account banned"
        /\ response.user = NoUser
        /\ \/ \E x \in sessions : x.token = response.in.token
           \/ response.in.token \in hist.loggedOut
  /\ Answered("me") /\ ~response.threw /\ response.checks = AllChecks
     => response.status = 200
  /\ Answered("login") /\ ~response.threw
       /\ "user" \in response.checks /\ "notBanned" \notin response.checks
       /\ response.user.passwordHash # NoHash
     => response.status = 403 /\ response.body = "Account banned"

C16_Witness ==
  /\ Answered("me") /\ response.status = 403 /\ response.body = "Account banned"
  /\ SessionState(response.in.token) = "live"
  /\ getUser(response.in.token.userId).bannedAt # NullDate

\* C17: the gate finds a session only in a row whose token matches and whose
\* expiresAt is strictly later than now; an expired row, which is still in
\* the table, is answered like a missing one: 401 'Session expired'.
C17_ExpiredLikeMissing ==
  /\ \A r \in Handlers("me") \cup Handlers("logout") :
       r.row # NoRow => r.cause = "live" /\ r.row.token = r.in.token
  /\ GateAnswered /\ ~response.threw
       /\ response.cause \in {"expired", "absent"}
     => /\ response.status = 401 /\ response.body = "Session expired"
        /\ response.user = NoUser
        /\ response.cause = "expired" =>
             \E x \in sessions :
               x.token = response.in.token /\ x.expiresAt <= now

C17_Witness ==
  /\ Answered("me") /\ response.cause = "expired"
  /\ response.status = 401 /\ response.body = "Session expired"
  /\ \E x \in sessions : x.token = response.in.token /\ x.expiresAt = now

\* C18: after a logout with token T has completed, no later request that
\* presents T is let through the gate.
C18_LoggedOutTokenRejected ==
  GateAnswered /\ response.again => response.user = NoUser

\* C19: POST /auth/request-reset with a well-formed email is answered with
\* the same status and body whether or not the email is registered.
C19_SameAnswer ==
  Answered("requestReset") /\ EmailOk(response.in.email) =>
    /\ response.status = 200
    /\ response.body = "If an account exists, a reset email has been sent"

C19_Witness ==
  /\ Answered("requestReset") /\ EmailOk(response.in.email)
  /\ ~response.threw /\ "user" \notin response.checks
  /\ hist.found # {}
  /\ response.status = 200

\* The rows of password_reset_tokens that hold the token of request n.
RowsOfRequest(n) ==
  {row \in Rows(passwordResetTokens) : row.token = ResetTokenText(n + 1)}

\* C20: a reset request whose email matches no identity creates no token row
\* and sends no mail; one whose email matches an identity creates exactly one
\* row, owned by that identity, expiring 1 hour after the request and not
\* used.
C20_RequestFrame ==
  /\ \A n \in 1..started :
       n \notin hist.found =>
         RowsOfRequest(n) = {} /\ ResetTokenText(n + 1) \notin mailbox
  /\ \A r \in Handlers("requestReset") :
       /\ r.n \notin hist.found =>
            r.wrote = {} /\ r.pc \in {"getUserByEmail", "done"}
       /\ "passwordResetTokens" \in r.wrote =>
            /\ Cardinality(RowsOfRequest(r.n)) = 1
            /\ \A row \in RowsOfRequest(r.n) :
                 /\ \E u \in Rows(users) :
                      u.id = row.userId /\ u.email = r.in.email
                 /\ row.expiresAt =
                      r.at + PASSWORD_RESET_EXPIRY_HOURS * 60 * 60 * 1000
                 /\ row.used = FALSE
  /\ \A n \in 1..started : Cardinality(RowsOfRequest(n)) <= 1

C20_Witness ==
  \E r \in inflight :
    /\ r.kind = "requestReset" /\ r.pc = "sgMail.send"
    /\ Cardinality(RowsOfRequest(r.n)) = 1
    /\ \E n \in 1..started : n \notin hist.found /\ n < r.n

\* C21: in POST /auth/request-reset for a registered email the reset token
\* row is persisted before the response is sent, and the response is sent
\* without waiting for the notification dispatch.
C21_PersistedBeforeResponse ==
  /\ Answered("requestReset") /\ response.n \in hist.found /\ ~response.threw
       => RowsOfRequest(response.n) # {}
  /\ \A r \in inflight :
       r.kind = "requestReset" /\ r.pc = "sgMail.send" =>
         ResetTokenText(r.n + 1) \notin mailbox

\* C22: at POST /auth/login, for every stored identity state, a login with
\* an account's email and a wrong password is answered like a login with an
\* email that matches no identity: 401 "Invalid credentials".
C22_WrongPasswordLikeUnknownEmail ==
  /\ Answered("login") /\ ~response.threw /\ response.status # 400
  /\ \A u \in Rows(users) :
       u.email = response.in.email =>
         ~verifyPassword(response.in.password, u.passwordHash)
  => response.status = 401 /\ response.body = "Invalid credentials"

\* C24: determineRole returns "admin" exactly when the address is non-empty
\* and equals the operator address the deployment configured, and "user"
\* otherwise: for null, and for every address when none is configured.
C24_DetermineRole ==
  response.kind = "determineRole" =>
    LET w == response.in.walletAddress
        configured == adminEnv \notin {NoWallet, EmptyWallet}
    IN /\ response.result \in {"admin", "user"}
       /\ response.result = "admin" <=>
            (w \notin {NoWallet, EmptyWallet} /\ configured /\ w = adminEnv)
       /\ w = NoWallet => response.result = "user"
       /\ ~configured => response.result = "user"

C24_Witness ==
  /\ response.kind = "determineRole"
  /\ response.in.walletAddress = EmptyWallet
  /\ adminEnv = NoWallet
  /\ response.result = "user"

\* C25: after a successful wallet verify for the operator wallet the stored
\* identity of that wallet has role "admin" and the issued token carries role
\* "admin", whether this login created the identity or found it with role
\* "user".
C25_OperatorBecomesAdmin ==
  /\ Answered("verify") /\ response.status = 200
  /\ adminEnv \notin {NoWallet, EmptyWallet}
  /\ response.in.walletAddress = adminEnv
  => /\ \E u \in Rows(users) : u.walletAddress = adminEnv
     /\ \A u \in Rows(users) : u.walletAddress = adminEnv => u.role = "admin"
     /\ response.token.role = "admin"
     /\ response.token \in clientTokens
     /\ \E u \in Rows(users) :
          u.walletAddress = adminEnv /\ response.token.userId = u.id

C25_Witness ==
  /\ Answered("verify") /\ response.status = 200
  /\ response.in.walletAddress = adminEnv
  /\ adminEnv = WalletB
  /\ response.user.id = SeedWalletUser(1, WalletB).id
  /\ "users" \in response.wrote
  /\ response.token.role = "admin"

\* C27: the cookie name is the same everywhere: requireAdmin reads the
\* authToken cookie that login sets, so an admin whose only credential is
\* the login cookie passes requireAdmin.
C27_AdminCookieAccepted ==
  /\ Answered("admin") /\ ~response.threw
  /\ ~response.in.bearer
  /\ verifyJWT(response.in.token, now) # NoClaims
  /\ SessionState(response.in.token) = "live"
  /\ \E u \in Rows(users) :
       u.id = response.in.token.userId /\ u.role = "admin"
  => response.status = 200

\* The token a gate has to take from a request: the one after "Bearer " when
\* the Authorization header has that scheme, the authToken cookie otherwise.
TokenOf(in) ==
  IF in.authorization.scheme = "Bearer " THEN in.authorization.token
  ELSE in.cookies.authToken

\* History: every check of the gate would pass for this token, now.
Authorizable(token) ==
  /\ token # NoToken /\ verifyJWT(token, now) # NoClaims
  /\ SessionState(token) = "live"
  /\ \E u \in Rows(users) : u.id = token.userId /\ u.bannedAt = NullDate

\* C26: the gate reads the token from the Authorization Bearer header first
\* and falls back to the authToken cookie: a request with no header and a
\* valid cookie is authorized, and when both are present the header's token
\* is the one every check is made on.
C26_HeaderThenCookie ==
  Answered("me") /\ ~response.threw =>
    LET token == TokenOf(response.in)
    IN /\ response.status = 200 <=> Authorizable(token)
       /\ response.status = 200 =>
            response.token = token /\ response.user.id = token.userId
       /\ response.status # 200 => response.user = NoUser

C26_Witness ==
  /\ Answered("me") /\ response.status = 200
  /\ response.in.authorization = NoHeader
  /\ response.in.cookies.authToken = SeedToken
  /\ response.user.id = SeedToken.userId

\* C28: optionalAuthMiddleware always calls next() and never rejects; with
\* no token the request goes on anonymous; it attaches req.user only for a
\* request that authMiddleware would authorize.
C28_OptionalRefinesGate ==
  /\ Answered("optional") =>
       /\ response.status = 200 /\ response.body = "next"
       /\ TokenOf(response.in) = NoToken => response.user = NoUser
       /\ response.user # NoUser =>
            /\ Authorizable(TokenOf(response.in))
            /\ response.token = TokenOf(response.in)
            /\ response.user.id = TokenOf(response.in).userId
       /\ response.user = NoUser => response.token = NoToken
  /\ \A r \in Handlers("optional") :
       /\ r.user # NoUser => r.checks = AllChecks /\ r.pc = "done"
       /\ r.wrote = {}

C28_Witness ==
  /\ Answered("optional")
  /\ response.user = NoUser /\ ~response.threw
  /\ response.checks = AllChecks \ {"notBanned"}
  /\ response.in.authorization = NoHeader

\* C23: POST /auth/register creates identities with role "user", and no
\* sequence of register, email login, profile update, change-password,
\* request-reset and reset-password makes any identity's role "admin".
C23_NoRoleEscalation ==
  /\ \A u \in Rows(users) : u.role = "user"
  /\ \A t \in clientTokens : t.role = "user"
  /\ Answered("register") /\ response.status = 201 =>
       /\ response.user.role = "user" /\ response.token.role = "user"
       /\ \E u \in Rows(users) :
            /\ u.id = response.user.id /\ u.email = response.in.email
            /\ u.role = "user"

C23_Witness ==
  /\ Answered("profile") /\ response.status = 200
  /\ response.in.role = "admin"
  /\ "users" \in response.wrote
  /\ response.user.email = EmailB
  /\ \E u \in Rows(users) :
       u.id = response.user.id /\ u.role = "user" /\ u.bio = <<"hi">>

\* The stored identities, other than the one request r created, that hold
\* the email or the username r asked for.
HoldersOf(r) ==
  {u \in Rows(users) :
     /\ ~("users" \in r.wrote /\ u.id = r.user.id)
     /\ u.email = r.in.email \/ u.username = r.in.username}

\* C30: a registration whose email or username an identity already holds is
\* answered 400 and creates no identity and no session, also when two
\* registrations with the same email or username run concurrently; email and
\* username are unique among the stored identities.
C30_ConflictRejected ==
  /\ \A i, j \in 1..Len(users) :
       i # j => /\ users[i].username # users[j].username
                /\ users[i].email # NoEmail => users[i].email # users[j].email
  /\ /\ Answered("register")
     /\ ~response.threw \/ response.cause = "unique"
     /\ EmailOk(response.in.email) /\ UsernameOk(response.in.username)
     /\ HoldersOf(response) # {}
     => /\ response.status = 400
        /\ response.wrote = {}
        /\ \A x \in sessions : x.token # response.token

\* C29: every stored identity has a wallet address or both an email and a
\* password hash, after any sequence of wallet verify, register, profile
\* update, change-password and reset-password.
C29_IdentityHasCredential ==
  \A u \in Rows(users) :
    \/ u.walletAddress \notin {NoWallet, EmptyWallet}
    \/ u.email # NoEmail /\ u.passwordHash # NoHash

C29_Witness ==
  /\ \E u \in Rows(users) :
       u.walletAddress = WalletA /\ u.email = NoEmail /\ u.passwordHash = NoHash
  /\ \E u \in Rows(users) :
       u.walletAddress = NoWallet /\ u.email = EmailB /\ u.passwordHash # NoHash

\* C31: for every wallet address W with no identity, a verify request with
\* an unused, unexpired challenge and a valid signature is answered 200,
\* creates exactly one identity with walletAddress W and the username made
\* of W's prefix, and creates a session for it, whatever other identities
\* exist.
C31_FirstLoginCreates ==
  /\ Answered("verify") /\ response.live
  /\ ~response.threw \/ response.cause = "unique"
  /\ verifyWalletSignature(response.in.challenge, response.in.signature,
                           KeyOf(response.in.walletAddress))
  /\ \A u \in Rows(users) :
       u.walletAddress = response.in.walletAddress =>
         "users" \in response.wrote /\ u.id = response.user.id
  => /\ response.status = 200
     /\ Cardinality({u \in Rows(users) :
                       u.walletAddress = response.in.walletAddress}) = 1
     /\ response.user.username = WalletUsername(response.in.walletAddress)
     /\ \E x \in sessions :
          x.userId = response.user.id /\ x.token = response.token

\* C32: session creation never conflicts: two successful credential checks
\* for one identity, however close in time, each create their own session
\* row with their own token, so both logins succeed.
C32_SessionPerLogin ==
  /\ Answered("login") /\ response.token # NoToken
  /\ ~response.threw \/ response.cause = "unique"
  => /\ response.status = 200
     /\ "sessions" \in response.wrote
     /\ \E x \in sessions :
          x.token = response.token /\ x.id = sessionSeq

\* C33: when two reset-password requests with the same valid token and
\* different new passwords are interleaved, at most one reports success, and
\* the stored password hash is the one the successful request wrote.
C33_OneRedemptionWins ==
  Answered("reset") /\ response.status = 200 =>
    /\ ~response.again
    /\ getUser(response.row.userId).passwordHash = response.hash

\* C35: after a successful redemption for an identity, no other reset token
\* issued for that identity before the redemption can be redeemed.
C35_OlderTokensDie ==
  Answered("reset") /\ response.stale => response.status # 200


\* C34: neither login path issues a session to a banned identity: a login or
\* a wallet verification that is answered with success and a token has read
\* an identity row whose bannedAt is not set, and no session row belongs to
\* an identity that was banned when its handler read it.
C34_NoSessionForBanned ==
  /\ (Answered("login") \/ Answered("verify")) /\ response.status = 200
       => response.user.bannedAt = NullDate
  /\ \A r \in inflight :
       r.kind \in {"login", "verify"} /\ r.pc = "createSession"
         => r.user.bannedAt = NullDate


\* C36: POST /auth/request-reset sends one response on every path: each step
\* of the handler that ends it or answers is the sending of its answer, and
\* never a second call of res.json or an error that leaves the handler.
C36_RespondsOnce ==
  response.kind = "requestReset" =>
    /\ response.pc = "done"
    /\ ~response.again
    /\ response.status \in {200, 400}


\* The latest step answered a verify request with a rejection for its
\* signature or for a missing field.
VerifyRejected ==
  /\ Answered("verify")
  /\ response.body \in {"Invalid signature", "Missing required fields"}

\* C37: a failed verify attempt does not consume the challenge: the step
\* that rejects a verify request for an invalid signature or a missing field
\* leaves the challenge rows, the identities and the sessions as they were,
\* the handler has written nothing, and the challenge a signature was
\* rejected for is still unused and unexpired; and a verify request with a
\* valid signature for a challenge that is unused and unexpired succeeds
\* after such rejections, unless a store call fails.
C37_FailedVerifyKeeps ==
  [][/\ VerifyRejected' /\ response' # response =>
          /\ UNCHANGED <<authChallenges, users, sessions, sessionSeq>>
          /\ response'.wrote = {} /\ response'.token = NoToken
          /\ response'.body = "Invalid signature" =>
               /\ response'.row \in Rows(authChallenges')
               /\ LiveChallenge(response.in.walletAddress,
                                response.in.challenge)'
     /\ /\ Answered("verify")' /\ response'.in.challenge \in hist'.rejected
        /\ response'.live /\ ~response'.threw
        /\ verifyWalletSignature(response'.in.challenge,
                                 response'.in.signature,
                                 response'.in.publicKey)
        => response'.status = 200 /\ response'.token # NoToken]_vars

C37_Witness ==
  /\ Answered("verify") /\ response.status = 200
  /\ response.in.challenge \in hist.rejected
  /\ ~response.again
  /\ \E row \in Rows(authChallenges) :
       row.challenge = response.in.challenge /\ row.used
  /\ Cardinality(sessions) = 1


\* C38: session ownership: the claims of every session row's token name the
\* identity of the row's userId, and the identity the gate loads for a
\* request is the owner of the session row it matched.
C38_SessionOwnership ==
  /\ \A x \in sessions : Claims(x.token).userId = x.userId
  /\ \A r \in Handlers("me") :
       r.user # NoUser =>
         /\ r.row.token = r.in.token
         /\ r.row.userId = r.user.id

C38_Witness ==
  /\ Answered("me") /\ response.status = 200 /\ response.user.id # 1
  /\ \E x \in sessions : x.userId = 1
  /\ \E x \in sessions :
       x.userId = response.user.id /\ x.token = response.in.token

=============================================================================
